---- MODULE Spec2Model ----
(***************************************************************************)
(* Model of the web-extraction core of movie-browser-api:                  *)
(*   - GoogleKnowledgePanelScraper (browser session, bot-detection retry,   *)
(*     watch-option extraction and squash) and its Lambda handler,          *)
(*   - GoogleKnowledgePanelEnricher.enrichContent, which drives a scraper,  *)
(*   - scrapeRatings and the ratings Lambda handler.                        *)
(* Every await of the TypeScript code is a step; the outcomes of browser,   *)
(* network and database operations are nondeterministic inputs.             *)
(***************************************************************************)
EXTENDS Integers, Sequences, FiniteSets, TLC

\* ------------------------------------------------------------------------
\* Bounds of the model
\* ------------------------------------------------------------------------
\* watch-option anchors of the primary and secondary sources of a scraped page
MaxAnchors == 1
\* entries of a list given to squashWatchOptions on its own
MaxLen == 3
\* top-level calls made on one long-lived object
MaxCalls == 2
\* invocations of the Lambda handlers in one container
MaxInvocations == 1
\* calls of the public methods of one scraper object
MaxOps == 4
\* entries of a proxy list
MaxProxies == 1

\* ------------------------------------------------------------------------
\* Program constants
\* ------------------------------------------------------------------------
MAX_RETRIES == 3

\* ------------------------------------------------------------------------
\* Optional values (null | value) and texts (sequences of characters)
\* ------------------------------------------------------------------------
None == <<>>
Some(x) == <<x>>
IsSome(o) == Len(o) = 1
Val(o) == o[1]
Opt(S) == {None} \cup {Some(x) : x \in S}

SeqsUpTo(S, n) == UNION {[1..k -> S] : k \in 0..n}

EmptyText == <<>>
T_399 == <<"$", "3", ".", "9", "9">>
T_400 == <<"$", "4", ".", "0", "0">>
T_00 == <<".", "0", "0">>
T_FREE == <<"F", "R", "E", "E">>
T_Free == <<"F", "r", "e", "e">>

LowerChar(c) ==
    CASE c = "F" -> "f"
      [] c = "R" -> "r"
      [] c = "E" -> "e"
      [] OTHER -> c

ToLowerCase(t) == [i \in 1..Len(t) |-> LowerChar(t[i])]

\* position of the first occurrence of pat in t, 0 when there is none
IndexOf(t, pat) ==
    LET hits == {i \in 1..(Len(t) - Len(pat) + 1) :
                    SubSeq(t, i, i + Len(pat) - 1) = pat}
    IN IF hits = {} THEN 0 ELSE CHOOSE i \in hits : \A j \in hits : i <= j

Includes(t, pat) == IndexOf(t, pat) > 0

\* String.prototype.replace with a string pattern: the first occurrence only
ReplaceFirst(t, pat, by) ==
    LET i == IndexOf(t, pat)
    IN IF i = 0 THEN t
       ELSE SubSeq(t, 1, i - 1) \o by \o SubSeq(t, i + Len(pat), Len(t))

priceMapper(price) ==
    IF price = EmptyText THEN EmptyText
    ELSE IF Includes(ToLowerCase(price), <<"f", "r", "e", "e">>) THEN T_Free
    ELSE ReplaceFirst(price, T_00, EmptyText)

\* ------------------------------------------------------------------------
\* Watch options and squashWatchOptions
\* ------------------------------------------------------------------------
Links == {"https://a.example/w", "https://b.example/w"}

hostname(link) ==
    CASE link = "https://a.example/w" -> "a.example"
      [] link = "https://b.example/w" -> "b.example"

\* a WatchOption {link, name, price?}: hasPrice tells whether the price
\* property is there at all, price is its text
WatchOption(l, n, hp, p) == [link |-> l, name |-> n, hasPrice |-> hp, price |-> p]

\* JavaScript truthiness of option.price
Truthy(o) == o.hasPrice /\ o.price # EmptyText

IndexOfLink(seq, l) ==
    LET hits == {i \in 1..Len(seq) : seq[i].link = l}
    IN IF hits = {} THEN 0 ELSE CHOOSE i \in hits : TRUE

\* SquashStep without the Map lookup: every option is kept
SquashStep_NoDedup(m, option) == Append(m, option)

\* SquashStep without the price test: the first entry of a link always stays
SquashStep_FirstWins(m, option) ==
    IF IndexOfLink(m, option.link) = 0 THEN Append(m, option) ELSE m

\* SquashStep that copies the price of the later entry into the kept one
SquashStep_MergesPrice(m, option) ==
    LET i == IndexOfLink(m, option.link)
    IN IF i = 0 THEN Append(m, option)
       ELSE IF Truthy(option) /\ ~Truthy(m[i])
            THEN [m EXCEPT ![i].hasPrice = TRUE, ![i].price = option.price]
       ELSE m

\* one turn of the for loop of squashWatchOptions: m is the Map, kept as the
\* sequence of its values in insertion order (Map.set on an existing key
\* keeps the key's position)
SquashStep(m, option) ==
    LET i == IndexOfLink(m, option.link)
    IN IF i = 0 THEN Append(m, option)
       ELSE IF Truthy(option) /\ ~Truthy(m[i]) THEN [m EXCEPT ![i] = option]
       ELSE m

RECURSIVE SquashFrom(_, _)
SquashFrom(m, rest) ==
    IF rest = <<>> THEN m
    ELSE SquashFrom(SquashStep(m, Head(rest)), Tail(rest))

\* squashWatchOptions with a loop that starts at the second option
squashWatchOptions_SkipFirst(watchOptions) ==
    IF watchOptions = <<>> THEN <<>> ELSE SquashFrom(<<>>, Tail(watchOptions))

squashWatchOptions(watchOptions) == SquashFrom(<<>>, watchOptions)

\* ------------------------------------------------------------------------
\* The knowledge-panel DOM and the extraction functions
\* ------------------------------------------------------------------------
Names == {"Netflix"}
PriceTexts == {T_399, T_00}

\* <a> elements of the expanded "where to watch" container (primary source);
\* the code reads the name only when there is a link, the price only when
\* there is a name
PAnchors ==
    {[href |-> None, name |-> None, price |-> None]}
    \cup {[href |-> Some(l), name |-> None, price |-> None] : l \in Links}
    \cup {[href |-> Some(l), name |-> Some(n), price |-> p] :
            l \in Links, n \in Names, p \in Opt(PriceTexts)}

\* <a> elements of div.nGOerd (secondary source): price1 is the text of
\* div.rsj3fb, price2 the text of div.ZYHQ7e
SPrices ==
    {[price1 |-> None, price2 |-> None]}
    \cup {[price1 |-> Some(t), price2 |-> None] : t \in PriceTexts}
    \cup {[price1 |-> Some(EmptyText), price2 |-> Some(T_399)],
          [price1 |-> None, price2 |-> Some(T_FREE)]}

SAnchors ==
    {[href |-> None, name |-> None, price1 |-> None, price2 |-> None]}
    \cup {[href |-> Some(l), name |-> None, price1 |-> None, price2 |-> None] :
            l \in Links}
    \cup {[href |-> Some(l), name |-> Some(n), price1 |-> p.price1,
           price2 |-> p.price2] : l \in Links, n \in Names, p \in SPrices}

\* the single div.fOYFme>a element (fallback source): span is the text of
\* its first <span>, uiBRm the text of its .uiBRm element
FPrices ==
    {[span |-> None, uiBRm |-> None],
     [span |-> Some(T_00), uiBRm |-> None],
     [span |-> Some(EmptyText), uiBRm |-> Some(T_399)],
     [span |-> None, uiBRm |-> Some(T_400)]}

FAnchors ==
    {[href |-> None, span |-> None, uiBRm |-> None]}
    \cup {[href |-> Some(l), span |-> p.span, uiBRm |-> p.uiBRm] :
            l \in Links, p \in FPrices}

\* what the page shows of each source
\*   primary:   "absent"  no span.hVUO8e toggle
\*              "timeout" the toggle is there, g-expandable-content.rXtXab
\*                        does not show within 2000 ms
\*              "open"    the container shows, with these anchors
\*   secondary: "absent" | "present" with anchors
\*   fallback:  None | Some(anchor)
PrimaryDoms ==
    {[kind |-> "absent", anchors |-> <<>>], [kind |-> "timeout", anchors |-> <<>>]}
    \cup {[kind |-> "open", anchors |-> a] : a \in SeqsUpTo(PAnchors, MaxAnchors)}

\* n anchors of the page are in the primary source already
SecondaryDoms(n) ==
    {[kind |-> "absent", anchors |-> <<>>]}
    \cup {[kind |-> "present", anchors |-> a] : a \in SeqsUpTo(SAnchors, MaxAnchors - n)}

FallbackDoms == Opt(FAnchors)

\* rating badges (a.vIUFYd) and the director element
RatingDoms == {"none", "imdb"}
DirectorDoms == {None, Some("Director: Frank Darabont")}

RECURSIVE PrimaryFrom(_)
PrimaryFrom(anchors) ==
    IF anchors = <<>> THEN <<>>
    ELSE LET a == Head(anchors)
             rest == PrimaryFrom(Tail(anchors))
         IN IF ~IsSome(a.href) THEN rest
            ELSE IF ~IsSome(a.name) THEN rest
            ELSE IF IsSome(a.price) /\ Val(a.price) # EmptyText
                 THEN <<WatchOption(Val(a.href), Val(a.name), TRUE, Val(a.price))>> \o rest
                 ELSE <<WatchOption(Val(a.href), Val(a.name), FALSE, EmptyText)>> \o rest

\* result of extractWatchOptionsFromPrimarySource when it returns
extractWatchOptionsFromPrimarySource(dom) ==
    IF dom.kind = "absent" THEN <<>> ELSE PrimaryFrom(dom.anchors)

\* extractWatchOptionsFromPrimarySource throws: the waitForSelector of the
\* expanded container is not caught
PrimaryThrows(dom) == dom.kind = "timeout"

\* the error of that waitForSelector
SELECTOR_TIMEOUT == "Waiting for selector g-expandable-content.rXtXab failed: 2000ms exceeded"
NAVIGATION_TIMEOUT == "Navigation timeout of 30000 ms exceeded"

SecondaryPrice(a) ==
    IF IsSome(a.price1) THEN Val(a.price1)
    ELSE IF IsSome(a.price2) THEN Val(a.price2)
    ELSE EmptyText

RECURSIVE SecondaryFrom(_)
SecondaryFrom(anchors) ==
    IF anchors = <<>> THEN <<>>
    ELSE LET a == Head(anchors)
             rest == SecondaryFrom(Tail(anchors))
         IN IF ~IsSome(a.href) THEN rest
            ELSE <<WatchOption(Val(a.href),
                               IF IsSome(a.name) THEN Val(a.name) ELSE hostname(Val(a.href)),
                               TRUE, priceMapper(SecondaryPrice(a)))>> \o rest

extractWatchOptionsFromSecondarySource(dom) ==
    IF dom.kind = "absent" THEN <<>> ELSE SecondaryFrom(dom.anchors)

extractWatchOptionsFromFallbackSource(dom) ==
    IF ~IsSome(dom) THEN <<>>
    ELSE LET a == Val(dom)
             priceDom == IF IsSome(a.span) THEN a.span ELSE a.uiBRm
         IN IF ~IsSome(a.href) THEN <<>>
            ELSE IF IsSome(priceDom) /\ Val(priceDom) # EmptyText
                 THEN <<WatchOption(Val(a.href), hostname(Val(a.href)), TRUE,
                                    priceMapper(Val(priceDom)))>>
                 ELSE <<WatchOption(Val(a.href), hostname(Val(a.href)), FALSE, EmptyText)>>

extractRatings(dom) ==
    IF dom = "imdb"
    THEN [ratings |-> <<[rating |-> "9.3/10", name |-> "IMDb",
                         link |-> "https://www.imdb.com/title/tt0111161/"]>>,
          imdbId |-> Some("tt0111161")]
    ELSE [ratings |-> <<>>, imdbId |-> None]

extractDirector(dom) ==
    IF IsSome(dom) THEN Some("Frank Darabont") ELSE None

\* ------------------------------------------------------------------------
\* State
\* ------------------------------------------------------------------------
\* "outer" and "inner" are the two scraper objects of the Lambda handler
\* (lines 602 and 621), "enricher" is GoogleKnowledgePanelEnricher.scraper,
\* "direct" is a scraper whose public methods are called one by one
ScraperIds == {"outer", "inner", "enricher", "direct"}

Proxies == {[host |-> "proxy-1", auth |-> FALSE], [host |-> "proxy-2", auth |-> TRUE]}
ProxyLists == SeqsUpTo(Proxies, MaxProxies)

VARIABLES
    pc,            \* the statement the running call is at, "idle" between calls
    caller,        \* who called scrape(): "kp", "enrich" or "direct"
    cur,           \* the scraper object scrape() runs on (this)
    calls,         \* top-level calls started so far
    browser,       \* this.browser of each scraper: a process id, 0 for null
    page,          \* this.page of each scraper: the process it belongs to, 0 for null
    currentProxy,  \* this.currentProxy of each scraper
    retryCount,    \* this.retryCount of each scraper
    proxyList,     \* this.proxyList of each scraper
    procs,         \* every browser process launched so far
    req,           \* the request body as parsed: the kind of event.body, searchString, region
    locals,        \* local variables of the running scrape
    result,        \* value returned by the last scrape, None before
    dropped,       \* options the squash of the last scrape left out
    err,           \* error thrown by the last failing call, "" when none
    resp,          \* response of the Lambda handler
    navCount,      \* page.goto calls of the running top-level scrape
    scroll,        \* the synthetic scroll page.evaluate is running
    startRetry,    \* retryCount when the running top-level scrape began
    detected,      \* processes whose page showed the bot challenge to the running call
    retryLog,      \* what a bot-detection retry has done so far
    lastOp,        \* the page operation of the last step
    scrapeExit,    \* how the top-level scrape ended
    closeCalls,    \* close() calls on cur since the top-level scrape ended
    invLaunched,   \* processes launched by the running top-level call
    ratingsIn,     \* request body and fetch outcomes of the running ratings handler
    ratingsOut,    \* the RatingsData being built
    fetches,       \* HTTP fetches started by the running ratings handler
    enrichRet,     \* what the last enrichContent returned: "none", "true", "false"
    sq,            \* squashWatchOptions applied on its own: input and outputs
    parse,         \* a ratings parser applied on its own: page and result
    setup,         \* what setupPage has applied to a page
    price,         \* a price text of a watch option element and the option extracted
    closing,       \* close() calls that wait for browser.close()
    watch_providers, \* rows of the table watch_providers
    runs           \* enrichContent runs of one batch of processAcrossCountries

session == <<browser, page, currentProxy, procs, invLaunched>>
callerVars == <<ratingsIn, ratingsOut, fetches, enrichRet, sq, parse>>
auxVars == <<setup, closing, watch_providers, runs>>
vars == <<pc, caller, cur, calls, browser, page, currentProxy, retryCount, proxyList,
          procs, req, locals, result, dropped, err, resp, navCount, scroll, startRetry, detected,
          retryLog, lastOp, scrapeExit, closeCalls, invLaunched,
          ratingsIn, ratingsOut, fetches, enrichRet, sq, parse,
          setup, price, closing, watch_providers, runs>>

NoOp == [op |-> "none", b |-> 0]
\* no page.evaluate is running the scroll
NoScroll == [currentScroll |-> 0, maxScroll |-> 0, reach |-> 0, steps |-> 0]
NoLocals == [ratings |-> <<>>, imdbId |-> None, directorName |-> None,
             primary |-> <<>>, secondary |-> <<>>]
NoReq == [body |-> "none", searchString |-> None, region |-> None]
NoResp == [status |-> 0, error |-> "", message |-> "", returned |-> FALSE]
NoRatingsIn == [body |-> "none", imdbId |-> None, rottenTomatoesUrl |-> None,
                imdbFetch |-> "none", rtFetch |-> "none",
                imdbHtml |-> None, rtHtml |-> None]
NoRatingsOut == [imdb |-> None, rottenTomatoes |-> None]
NoSquash == [stage |-> "none", input |-> <<>>, out |-> <<>>, again |-> <<>>,
             reordered |-> <<>>, outReordered |-> <<>>]
NoParse == [fn |-> "none", page |-> None, out |-> None]
NoSetup == [applied |-> FALSE]
NoPrice == [source |-> "none", text |-> <<>>, out |-> None]

\* the state after construction, but for sq and parse
InitBut ==
    /\ setup = NoSetup
    /\ closing = {}
    /\ watch_providers = <<>>
    /\ runs = <<>>
    /\ pc = "idle"
    /\ caller = "none"
    /\ cur = "direct"
    /\ calls = 0
    /\ browser = [s \in ScraperIds |-> 0]
    /\ page = [s \in ScraperIds |-> 0]
    /\ currentProxy = [s \in ScraperIds |-> None]
    /\ retryCount = [s \in ScraperIds |-> 0]
    /\ proxyList = [s \in ScraperIds |-> <<>>]
    /\ procs = <<>>
    /\ req = NoReq
    /\ locals = NoLocals
    /\ result = None
    /\ dropped = 0
    /\ err = ""
    /\ resp = NoResp
    /\ navCount = 0
    /\ scroll = NoScroll
    /\ startRetry = 0
    /\ detected = {}
    /\ retryLog = <<>>
    /\ lastOp = NoOp
    /\ scrapeExit = "none"
    /\ closeCalls = 0
    /\ invLaunched = {}
    /\ ratingsIn = NoRatingsIn
    /\ ratingsOut = NoRatingsOut
    /\ fetches = 0
    /\ enrichRet = "none"

Init ==
    /\ InitBut
    /\ price = NoPrice
    /\ sq = NoSquash
    /\ parse = NoParse

\* ------------------------------------------------------------------------
\* GoogleKnowledgePanelScraper: initialize, close
\* ------------------------------------------------------------------------
BOT_LIMIT == "Bot detection limit reached after multiple retries"
NOT_INITIALIZED == "Browser not initialized. Call initialize() first."
NO_EXECUTABLE == "Chrome executable path not found"

\* a retry is in progress exactly when retryLog is not empty
Log(log, e) == IF log = <<>> THEN <<>> ELSE Append(log, e)

\* a proxy selection that is made at the first initialize() only
rotateProxy_NotOnRetry(s, i) ==
    IF proxyList[s] = <<>> \/ retryLog # <<>> THEN None ELSE Some(proxyList[s][i])

\* rotateProxy: i is the index getRandomItem draws
rotateProxy(s, i) ==
    IF proxyList[s] = <<>> THEN None ELSE Some(proxyList[s][i])

ProxyDraws(s) == IF proxyList[s] = <<>> THEN {0} ELSE 1..Len(proxyList[s])

InitOutcomes == {"ok", "noExecutable", "launchFails", "newPageFails", "setupFails"}

\* initialize() of scraper s; out is how far it gets, i the proxy drawn.
\* Gives the new fields, the processes, the retry log and the error thrown.
initialize(s, out, i) ==
    LET proxy == rotateProxy(s, i)
        b == Len(procs) + 1
        rotated == out # "noExecutable"
        launched == out \in {"ok", "newPageFails", "setupFails"}
        hasPage == out \in {"ok", "setupFails"}
        log1 == IF rotated THEN Log(retryLog, "rotateProxy") ELSE retryLog
        log2 == IF launched THEN Log(log1, "launch") ELSE log1
        log3 == IF hasPage THEN Log(log2, "setupPage") ELSE log2
    IN [ currentProxy |-> IF rotated /\ IsSome(proxy)
                          THEN [currentProxy EXCEPT ![s] = proxy] ELSE currentProxy,
         procs |-> IF launched
                   THEN Append(procs, [alive |-> TRUE, closes |-> 0, proxy |-> proxy])
                   ELSE procs,
         browser |-> IF launched THEN [browser EXCEPT ![s] = b] ELSE browser,
         page |-> IF hasPage THEN [page EXCEPT ![s] = b] ELSE page,
         invLaunched |-> IF launched THEN invLaunched \cup {b} ELSE invLaunched,
         retryLog |-> log3,
         err |-> CASE out = "ok" -> ""
                   [] out = "noExecutable" -> NO_EXECUTABLE
                   [] out = "launchFails" -> "Failed to launch the browser process"
                   [] out = "newPageFails" -> "Target closed"
                   [] out = "setupFails" -> "Protocol error" ]

\* close() that shuts the browser down and keeps this.browser and this.page
close_KeepsHandle(s) ==
    IF browser[s] # 0
    THEN [ procs |-> [procs EXCEPT ![browser[s]] =
                        [@ EXCEPT !.alive = FALSE, !.closes = @ + 1]],
           browser |-> browser,
           page |-> page ]
    ELSE [ procs |-> procs, browser |-> browser, page |-> page ]

\* close() of scraper s
close(s) ==
    IF browser[s] # 0
    THEN [ procs |-> [procs EXCEPT ![browser[s]] =
                        [@ EXCEPT !.alive = FALSE, !.closes = @ + 1]],
           browser |-> [browser EXCEPT ![s] = 0],
           page |-> [page EXCEPT ![s] = 0] ]
    ELSE [ procs |-> procs, browser |-> browser, page |-> page ]

\* ------------------------------------------------------------------------
\* GoogleKnowledgePanelScraper.scrape, one action per await
\* ------------------------------------------------------------------------
ReturnPc(c) ==
    CASE c = "kp" -> "k_return"
      [] c = "enrich" -> "e_save"
      [] OTHER -> "idle"

CatchPc(c) ==
    CASE c = "kp" -> "k_catch"
      [] c = "enrich" -> "e_catch"
      [] OTHER -> "idle"

\* the catch block of scrape logs and rethrows: the error reaches the caller
ScrapeThrow(e) ==
    /\ err' = e
    /\ scrapeExit' = IF e = BOT_LIMIT THEN "botlimit" ELSE "error"
    /\ closeCalls' = 0
    /\ locals' = NoLocals
    /\ retryLog' = <<>>
    /\ pc' = CatchPc(caller)

\* the caller calls scrape(searchString, region) on scraper s
CallScrape(s, c) ==
    /\ cur' = s
    /\ caller' = c
    /\ navCount' = 0
    /\ scroll' = NoScroll
    /\ startRetry' = retryCount[s]
    /\ scrapeExit' = "none"
    /\ closeCalls' = 0
    /\ pc' = "s_enter"

\* lines 485-505: the page check and the construction of the search URL
S_Enter ==
    /\ pc = "s_enter"
    /\ IF page[cur] = 0
       THEN ScrapeThrow(NOT_INITIALIZED)
       ELSE /\ pc' = "s_goto"
            /\ retryLog' = Log(retryLog, "url")
            /\ UNCHANGED <<auxVars, price, err, scrapeExit, closeCalls, locals>>
    /\ lastOp' = NoOp
    /\ UNCHANGED <<auxVars, price, caller, cur, calls, session, retryCount, proxyList, req, result, dropped,
                   resp, navCount, scroll, startRetry, detected, callerVars>>

\* a navigation that is tried again, through the retry of the bot check,
\* when it fails
S_Goto_Retries ==
    /\ pc = "s_goto"
    /\ navCount' = navCount + 1
    /\ scroll' = NoScroll
    /\ lastOp' = [op |-> "goto", b |-> page[cur]]
    /\ \E out \in {"ok", "timeout"} :
         IF out = "ok"
         THEN /\ pc' = "s_scroll"
              /\ retryLog' = <<>>
              /\ UNCHANGED <<auxVars, price, err, scrapeExit, closeCalls, locals>>
         ELSE IF navCount + 1 < MAX_RETRIES
         THEN /\ pc' = "s_close"
              /\ retryLog' = <<"detected">>
              /\ UNCHANGED <<auxVars, price, err, scrapeExit, closeCalls, locals>>
         ELSE ScrapeThrow(NAVIGATION_TIMEOUT)
    /\ UNCHANGED <<auxVars, price, caller, cur, calls, session, retryCount, proxyList, req, result, dropped,
                   resp, startRetry, detected, callerVars>>

\* line 508: page.goto, then the delay of line 509
S_Goto ==
    /\ pc = "s_goto"
    /\ navCount' = navCount + 1
    /\ scroll' = NoScroll
    /\ lastOp' = [op |-> "goto", b |-> page[cur]]
    /\ \E out \in {"ok", "timeout"} :
         IF out = "ok"
         THEN /\ pc' = "s_scroll"
              /\ retryLog' = <<>>
              /\ UNCHANGED <<auxVars, price, err, scrapeExit, closeCalls, locals>>
         ELSE ScrapeThrow(NAVIGATION_TIMEOUT)
    /\ UNCHANGED <<auxVars, price, caller, cur, calls, session, retryCount, proxyList, req, result, dropped,
                   resp, startRetry, detected, callerVars>>

\* units of scroll position a page can have
MaxScroll == 2

Min(a, b) == IF a < b THEN a ELSE b

\* the step of one scrollBy, in units: 10 + Math.random() * 30 pixels
ScrollSteps == {1, 2}

\* lines 524-535: page.evaluate is called; the function computes maxScroll
\* and sets currentScroll to 0. reach is the highest scrollTop the document
\* comes to, whatever is scrolled by.
S_Scroll ==
    /\ pc = "s_scroll"
    /\ lastOp' = [op |-> "evaluate", b |-> page[cur]]
    /\ \E out \in {"ok", "fails"} :
         IF out = "ok"
         THEN /\ \E m \in 0..MaxScroll, r \in 0..MaxScroll :
                   scroll' = [currentScroll |-> 0, maxScroll |-> m, reach |-> r, steps |-> 0]
              /\ pc' = "s_scroll_loop"
              /\ UNCHANGED <<auxVars, price, err, scrapeExit, closeCalls, locals, retryLog>>
         ELSE /\ ScrapeThrow("Execution context was destroyed")
              /\ scroll' = NoScroll
    /\ UNCHANGED <<auxVars, price, caller, cur, calls, session, retryCount, proxyList, req, result, dropped,
                   resp, navCount, startRetry, detected, callerVars>>

\* lines 536-537: the test of the while loop, and currentScroll =
\* scrollStep(); when the test fails the function returns and so does
\* page.evaluate. steps counts the scrollStep calls, up to MaxScroll + 1.
S_ScrollStep ==
    /\ pc = "s_scroll_loop"
    /\ IF scroll.currentScroll < scroll.maxScroll
       THEN /\ \E step \in ScrollSteps :
                 scroll' = [scroll EXCEPT
                              !.currentScroll = Min(scroll.currentScroll + step, scroll.reach),
                              !.steps = Min(scroll.steps + 1, MaxScroll + 1)]
            /\ pc' = "s_scroll_wait"
       ELSE /\ scroll' = NoScroll
            /\ pc' = "s_check"
    /\ UNCHANGED <<auxVars, price, caller, cur, calls, session, retryCount, proxyList, req, locals, result,
                   dropped, err, resp, navCount, startRetry, detected, retryLog, lastOp,
                   scrapeExit, closeCalls, callerVars>>

\* line 538: the delay between two steps is over
S_ScrollWait ==
    /\ pc = "s_scroll_wait"
    /\ pc' = "s_scroll_loop"
    /\ UNCHANGED <<auxVars, price, caller, cur, calls, session, retryCount, proxyList, req, locals, result,
                   dropped, err, resp, navCount, scroll, startRetry, detected, retryLog,
                   lastOp, scrapeExit, closeCalls, callerVars>>

\* page.evaluate does not return within the protocol timeout of puppeteer
\* and throws
S_ScrollTimeout ==
    /\ pc \in {"s_scroll_loop", "s_scroll_wait"}
    /\ ScrapeThrow("Runtime.callFunctionOn timed out")
    /\ scroll' = NoScroll
    /\ UNCHANGED <<auxVars, price, caller, cur, calls, session, retryCount, proxyList, req, result, dropped,
                   resp, navCount, startRetry, detected, lastOp, callerVars>>

PageContents == {"results", "detected unusual traffic", "verify you are a human"}

IsBotPage(content) ==
    content \in {"detected unusual traffic", "verify you are a human"}

\* the retry test with <= for <
MayRetry_Inclusive(count) == count <= MAX_RETRIES

\* the test that decides between another retry and the terminal error
MayRetry(count) == count < MAX_RETRIES

\* lines 545-559: the bot-detection check
S_Check ==
    /\ pc = "s_check"
    /\ lastOp' = [op |-> "content", b |-> page[cur]]
    /\ \E content \in PageContents :
         IF IsBotPage(content)
         THEN /\ retryCount' = [retryCount EXCEPT ![cur] = @ + 1]
              /\ detected' = detected \cup {page[cur]}
              /\ IF MayRetry(retryCount[cur] + 1)
                 THEN /\ pc' = "s_close"
                      /\ retryLog' = <<"detected">>
                      /\ UNCHANGED <<auxVars, price, err, scrapeExit, closeCalls, locals>>
                 ELSE ScrapeThrow(BOT_LIMIT)
         ELSE /\ retryCount' = [retryCount EXCEPT ![cur] = 0]
              /\ pc' = "s_ratings"
              /\ UNCHANGED <<auxVars, price, detected, retryLog, err, scrapeExit, closeCalls, locals>>
    /\ UNCHANGED <<auxVars, price, caller, cur, calls, session, proxyList, req, result, dropped, resp,
                   navCount, scroll, startRetry, callerVars>>

\* the retry without its await this.close()
S_Close_Skipped ==
    /\ pc = "s_close"
    /\ lastOp' = NoOp
    /\ pc' = "s_wait"
    /\ UNCHANGED <<auxVars, price, caller, cur, calls, session, retryCount, proxyList, req, locals,
                   result, dropped, err, resp, navCount, scroll, startRetry, detected, retryLog,
                   scrapeExit, closeCalls, callerVars>>

\* line 550: await this.close()
S_Close ==
    /\ pc = "s_close"
    /\ LET r == close(cur)
       IN /\ procs' = r.procs
          /\ browser' = r.browser
          /\ page' = r.page
    /\ retryLog' = Log(retryLog, "close")
    /\ lastOp' = NoOp
    /\ pc' = "s_wait"
    /\ UNCHANGED <<auxVars, price, caller, cur, calls, currentProxy, invLaunched, retryCount, proxyList,
                   req, locals, result, dropped, err, resp, navCount, scroll, startRetry, detected,
                   scrapeExit, closeCalls, callerVars>>

\* line 551: the cooldown of RETRY_DELAY ms
S_Wait ==
    /\ pc = "s_wait"
    /\ retryLog' = Log(retryLog, "wait")
    /\ lastOp' = NoOp
    /\ pc' = "s_init"
    /\ UNCHANGED <<auxVars, price, caller, cur, calls, session, retryCount, proxyList, req, locals,
                   result, dropped, err, resp, navCount, scroll, startRetry, detected, scrapeExit,
                   closeCalls, callerVars>>

\* lines 552-553: await this.initialize(); return this.scrape(...)
S_Init ==
    /\ pc = "s_init"
    /\ \E out \in InitOutcomes, i \in ProxyDraws(cur) :
         LET r == initialize(cur, out, i)
         IN /\ currentProxy' = r.currentProxy
            /\ procs' = r.procs
            /\ browser' = r.browser
            /\ page' = r.page
            /\ invLaunched' = r.invLaunched
            /\ IF out = "ok"
               THEN /\ pc' = "s_enter"
                    /\ retryLog' = r.retryLog
                    /\ UNCHANGED <<auxVars, price, err, scrapeExit, closeCalls, locals>>
               ELSE ScrapeThrow(r.err)
    /\ lastOp' = NoOp
    /\ UNCHANGED <<auxVars, price, caller, cur, calls, retryCount, proxyList, req, result, dropped, resp,
                   navCount, scroll, startRetry, detected, callerVars>>

ExtractOp == [op |-> "extract", b |-> page[cur]]

\* line 565: extractRatings
S_Ratings ==
    /\ pc = "s_ratings"
    /\ lastOp' = ExtractOp
    /\ \E dom \in RatingDoms, out \in {"ok", "fails"} :
         IF out = "ok"
         THEN /\ locals' = [locals EXCEPT !.ratings = extractRatings(dom).ratings,
                                          !.imdbId = extractRatings(dom).imdbId]
              /\ pc' = "s_director"
              /\ UNCHANGED <<auxVars, price, err, scrapeExit, closeCalls, retryLog>>
         ELSE ScrapeThrow("Protocol error")
    /\ UNCHANGED <<auxVars, price, caller, cur, calls, session, retryCount, proxyList, req, result, dropped,
                   resp, navCount, scroll, startRetry, detected, callerVars>>

\* line 568: extractDirector
S_Director ==
    /\ pc = "s_director"
    /\ lastOp' = ExtractOp
    /\ \E dom \in DirectorDoms :
         locals' = [locals EXCEPT !.directorName = extractDirector(dom)]
    /\ pc' = "s_primary"
    /\ UNCHANGED <<auxVars, price, caller, cur, calls, session, retryCount, proxyList, req, result, dropped, err,
                   resp, navCount, scroll, startRetry, detected, retryLog, scrapeExit,
                   closeCalls, callerVars>>

\* line 571: extractWatchOptionsFromPrimarySource
S_Primary ==
    /\ pc = "s_primary"
    /\ lastOp' = ExtractOp
    /\ \E dom \in PrimaryDoms :
         IF PrimaryThrows(dom)
         THEN ScrapeThrow(SELECTOR_TIMEOUT)
         ELSE /\ locals' = [locals EXCEPT
                               !.primary = extractWatchOptionsFromPrimarySource(dom)]
              /\ pc' = "s_secondary"
              /\ UNCHANGED <<auxVars, price, err, scrapeExit, closeCalls, retryLog>>
    /\ UNCHANGED <<auxVars, price, caller, cur, calls, session, retryCount, proxyList, req, result, dropped,
                   resp, navCount, scroll, startRetry, detected, callerVars>>

\* line 572: extractWatchOptionsFromSecondarySource
S_Secondary ==
    /\ pc = "s_secondary"
    /\ lastOp' = ExtractOp
    /\ \E dom \in SecondaryDoms(Len(locals.primary)) :
         locals' = [locals EXCEPT
                       !.secondary = extractWatchOptionsFromSecondarySource(dom)]
    /\ pc' = "s_fallback"
    /\ UNCHANGED <<auxVars, price, caller, cur, calls, session, retryCount, proxyList, req, result, dropped, err,
                   resp, navCount, scroll, startRetry, detected, retryLog, scrapeExit,
                   closeCalls, callerVars>>

\* lines 575-593: the GoogleSearchResult made of the locals and the fallback
\* options
ScrapeResult(fallbackWatchOptions) ==
    LET allWatchOptions == locals.primary \o locals.secondary \o fallbackWatchOptions
    IN [ ratings |-> locals.ratings,
         allWatchOptions |-> squashWatchOptions(allWatchOptions),
         imdbId |-> locals.imdbId,
         debugText |-> IF locals.ratings = <<>> THEN "body text" ELSE "",
         directorName |-> locals.directorName,
         region |-> req.region ]

\* lines 573-593: extractWatchOptionsFromFallbackSource, the squash, the
\* debug text and the return
S_Fallback ==
    /\ pc = "s_fallback"
    /\ lastOp' = ExtractOp
    /\ \E dom \in FallbackDoms :
         LET fallbackWatchOptions == extractWatchOptionsFromFallbackSource(dom)
             res == ScrapeResult(fallbackWatchOptions)
         IN /\ result' = Some(res)
            /\ dropped' = Len(locals.primary) + Len(locals.secondary)
                             + Len(fallbackWatchOptions) - Len(res.allWatchOptions)
    /\ locals' = NoLocals
    /\ scrapeExit' = "result"
    /\ closeCalls' = 0
    /\ pc' = ReturnPc(caller)
    /\ UNCHANGED <<auxVars, price, caller, cur, calls, session, retryCount, proxyList, req, err, resp,
                   navCount, scroll, startRetry, detected, retryLog, callerVars>>

ScrapeStep ==
    \/ S_Enter
    \/ S_Goto
    \/ S_Scroll
    \/ S_ScrollStep
    \/ S_ScrollWait
    \/ S_ScrollTimeout
    \/ S_Check
    \/ S_Close
    \/ S_Wait
    \/ S_Init
    \/ S_Ratings
    \/ S_Director
    \/ S_Primary
    \/ S_Secondary
    \/ S_Fallback

\* ------------------------------------------------------------------------
\* handler of googleKnowledgePanelScraper.ts
\* ------------------------------------------------------------------------
\* event.body: null, text that is not JSON, or a JSON object
KpBodies ==
    {[kind |-> "null", searchString |-> None, region |-> None, proxyList |-> <<>>],
     [kind |-> "malformed", searchString |-> None, region |-> None, proxyList |-> <<>>]}
    \cup {[kind |-> "json", searchString |-> q, region |-> g, proxyList |-> pl] :
            q \in Opt({"", "The Shawshank Redemption"}), g \in Opt({"US"}),
            pl \in ProxyLists}

\* the validation with searchString === undefined for !searchString
MissingSearchString_OnlyUndefined(body) == ~IsSome(body.searchString)

\* !searchString
MissingSearchString(body) ==
    ~IsSome(body.searchString) \/ Val(body.searchString) = ""

Response(status, error, message) ==
    [status |-> status, error |-> error, message |-> message, returned |-> FALSE]

\* a new scraper object: the field initialisers of lines 88-93
NewScraper(f, s, init) == [f EXCEPT ![s] = init]

\* lines 601-621: both scraper objects are constructed, the body is parsed
\* and validated
\* A handler invocation builds its own scraper objects (lines 602, 621), so
\* the handles of earlier invocations are gone.  Of the processes launched
\* before, the ones still running stay in the container; no object refers to
\* them any more.
IsRunning(p) == p.alive

StillRunning(ps) ==
    LET live == SelectSeq(ps, IsRunning)
    IN [i \in 1..Len(live) |-> [alive |-> TRUE, closes |-> 0, proxy |-> None]]

K_Start ==
    /\ pc = "idle"
    /\ calls < MaxInvocations
    /\ calls' = calls + 1
    /\ browser' = NewScraper(NewScraper(browser, "outer", 0), "inner", 0)
    /\ page' = NewScraper(NewScraper(page, "outer", 0), "inner", 0)
    /\ currentProxy' = NewScraper(NewScraper(currentProxy, "outer", None), "inner", None)
    /\ retryCount' = NewScraper(NewScraper(retryCount, "outer", 0), "inner", 0)
    /\ invLaunched' = {}
    /\ result' = None
    /\ dropped' = 0
    /\ fetches' = 0
    /\ lastOp' = NoOp
    /\ caller' = "kp"
    /\ cur' = "inner"
    /\ navCount' = 0
    /\ scroll' = NoScroll
    /\ startRetry' = 0
    /\ scrapeExit' = "none"
    /\ closeCalls' = 0
    /\ \E body \in KpBodies :
         CASE body.kind = "malformed" ->
                /\ err' = "Unexpected token in JSON"
                /\ resp' = NoResp
                /\ req' = [NoReq EXCEPT !.body = "malformed"]
                /\ proxyList' = NewScraper(NewScraper(proxyList, "outer", <<>>), "inner", <<>>)
                /\ pc' = "k_catch"
           [] body.kind # "malformed" /\ MissingSearchString(body) ->
                /\ err' = ""
                /\ resp' = Response(400, "Missing required field: searchString", "")
                /\ req' = [body |-> body.kind, searchString |-> body.searchString,
                           region |-> body.region]
                /\ proxyList' = NewScraper(NewScraper(proxyList, "outer", <<>>), "inner", <<>>)
                /\ pc' = "k_finally"
           [] OTHER ->
                /\ err' = ""
                /\ resp' = NoResp
                /\ req' = [body |-> body.kind, searchString |-> body.searchString,
                           region |-> body.region]
                /\ proxyList' = NewScraper(NewScraper(proxyList, "outer", <<>>),
                                           "inner", body.proxyList)
                /\ pc' = "k_init"
    /\ detected' = {}
    /\ ratingsIn' = NoRatingsIn
    /\ ratingsOut' = NoRatingsOut
    /\ procs' = StillRunning(procs)
    /\ UNCHANGED <<auxVars, price, locals, retryLog, enrichRet, sq, parse>>

\* lines 622-623: await scraper.initialize(); scraper.scrape(...) is called
K_Init ==
    /\ pc = "k_init"
    /\ \E out \in InitOutcomes, i \in ProxyDraws("inner") :
         LET r == initialize("inner", out, i)
         IN /\ currentProxy' = r.currentProxy
            /\ procs' = r.procs
            /\ browser' = r.browser
            /\ page' = r.page
            /\ invLaunched' = r.invLaunched
            /\ IF out = "ok"
               THEN /\ CallScrape("inner", "kp")
                    /\ UNCHANGED err
               ELSE /\ err' = r.err
                    /\ pc' = "k_catch"
                    /\ UNCHANGED <<auxVars, price, cur, caller, navCount, scroll, startRetry, scrapeExit, closeCalls>>
    /\ lastOp' = NoOp
    /\ UNCHANGED <<auxVars, price, calls, retryCount, proxyList, req, locals, result, dropped, resp, detected,
                   retryLog, callerVars>>

\* lines 625-632: the 200 response
K_Return ==
    /\ pc = "k_return"
    /\ resp' = Response(200, "", "")
    /\ result' = None
    /\ dropped' = 0
    /\ locals' = NoLocals
    /\ lastOp' = NoOp
    /\ pc' = "k_finally"
    /\ UNCHANGED <<auxVars, price, caller, cur, calls, session, retryCount, proxyList, req,
                   err, navCount, scroll, startRetry, detected, retryLog, scrapeExit,
                   closeCalls, callerVars>>

\* lines 633-645: the 500 response
K_Catch ==
    /\ pc = "k_catch"
    /\ resp' = Response(500, "Internal server error", err)
    /\ lastOp' = NoOp
    /\ pc' = "k_finally"
    /\ UNCHANGED <<auxVars, price, caller, cur, calls, session, retryCount, proxyList, req, locals,
                   result, dropped, err, navCount, scroll, startRetry, detected, retryLog, scrapeExit,
                   closeCalls, callerVars>>

\* the scraper object that the name scraper denotes in the finally block:
\* the const of line 602, the one of line 621 being scoped to the try block
FinallyScraper == "outer"

\* close() is called on s by the caller of scrape
CountClose(s) ==
    IF s = cur /\ scrapeExit # "none" THEN closeCalls + 1 ELSE closeCalls

\* lines 646-648: finally { await scraper.close() }, then the response is
\* returned
K_Finally ==
    /\ pc = "k_finally"
    /\ LET r == close(FinallyScraper)
       IN /\ procs' = r.procs
          /\ browser' = r.browser
          /\ page' = r.page
    /\ closeCalls' = CountClose(FinallyScraper)
    /\ resp' = [resp EXCEPT !.returned = TRUE]
    /\ lastOp' = NoOp
    /\ pc' = "idle"
    /\ UNCHANGED <<auxVars, price, caller, cur, calls, currentProxy, invLaunched, retryCount, proxyList,
                   req, locals, result, dropped, err, navCount, scroll, startRetry, detected, retryLog,
                   scrapeExit, callerVars>>

KpHandler == K_Start \/ K_Init \/ K_Return \/ K_Catch \/ K_Finally

\* ------------------------------------------------------------------------
\* ratingsScraper.ts: numbers and texts of the parsers
\* ------------------------------------------------------------------------
\* blocks of structured data (script[type="application/ld+json"]) of a page
MaxBlocks == 1
\* characters of the number part of a rating-count text
MaxDigits == 3

\* A JS number is n / 10^d, or NaN; n does not end with a zero (d is below
\* zero for a multiple of ten), and d is 0 when n is 0.
NaN == [nan |-> TRUE, n |-> 0, d |-> 0]

RECURSIVE Norm(_, _)
Norm(n, d) ==
    IF n = 0 THEN [nan |-> FALSE, n |-> 0, d |-> 0]
    ELSE IF n % 10 = 0 THEN Norm(n \div 10, d - 1)
    ELSE [nan |-> FALSE, n |-> n, d |-> d]

Number(n) == Norm(n, 0)

isNaN(x) == x.nan

RECURSIVE Pow10(_)
Pow10(k) == IF k = 0 THEN 1 ELSE 10 * Pow10(k - 1)

DigitChars == {"0", "1", "2", "3", "4", "5", "6", "7", "8", "9"}

DigitVal(c) ==
    CASE c = "0" -> 0 [] c = "1" -> 1 [] c = "2" -> 2 [] c = "3" -> 3
      [] c = "4" -> 4 [] c = "5" -> 5 [] c = "6" -> 6 [] c = "7" -> 7
      [] c = "8" -> 8 [] c = "9" -> 9

\* value of a text of digits
RECURSIVE DigitsValue(_)
DigitsValue(t) ==
    IF t = <<>> THEN 0
    ELSE 10 * DigitsValue(SubSeq(t, 1, Len(t) - 1)) + DigitVal(t[Len(t)])

\* number of digits t begins with
RECURSIVE DigitRun(_)
DigitRun(t) ==
    IF t # <<>> /\ Head(t) \in DigitChars THEN 1 + DigitRun(Tail(t)) ELSE 0

RECURSIVE TrimStart(_)
TrimStart(t) == IF t # <<>> /\ Head(t) = " " THEN TrimStart(Tail(t)) ELSE t

RECURSIVE TrimEnd(_)
TrimEnd(t) ==
    IF t # <<>> /\ t[Len(t)] = " " THEN TrimEnd(SubSeq(t, 1, Len(t) - 1)) ELSE t

\* String.prototype.trim
Trim(t) == TrimEnd(TrimStart(t))

UpperChar(c) ==
    CASE c = "k" -> "K"
      [] c = "m" -> "M"
      [] c = "a" -> "A"
      [] OTHER -> c

ToUpperCase(t) == [i \in 1..Len(t) |-> UpperChar(t[i])]

\* replace(/[^...]/g, ''): the characters of t that are in keep
KeepChars(t, keep) ==
    LET Kept(c) == c \in keep
    IN SelectSeq(t, Kept)

\* replace(/,/g, '') and the like: the characters of t that are not in drop
DropChars(t, drop) ==
    LET Stays(c) == c \notin drop
    IN SelectSeq(t, Stays)

\* parseFloat of a text without sign and exponent: leading blanks, digits,
\* then a point and digits; NaN when there is no digit
parseFloat(t) ==
    LET s == TrimStart(t)
        k == DigitRun(s)
        rest == SubSeq(s, k + 1, Len(s))
        hasPoint == rest # <<>> /\ Head(rest) = "."
        f == IF hasPoint THEN DigitRun(Tail(rest)) ELSE 0
        digits == SubSeq(s, 1, k) \o (IF hasPoint THEN SubSeq(rest, 2, f + 1) ELSE <<>>)
    IN IF k + f = 0 THEN NaN ELSE Norm(DigitsValue(digits), f)

\* parseInt(t, 10) of a text without sign: leading blanks, then digits
parseInt(t) ==
    LET s == TrimStart(t)
        k == DigitRun(s)
    IN IF k = 0 THEN NaN ELSE Number(DigitsValue(SubSeq(s, 1, k)))

\* Math.round(x * 10^e) for a number x >= 0 that is not NaN
RoundTimesPow10(x, e) ==
    IF x.d <= e THEN Norm(x.n, x.d - e)
    ELSE Number((2 * x.n + Pow10(x.d - e)) \div (2 * Pow10(x.d - e)))

\* A value of a JSON document: undefined (the property is absent), null, a
\* number or a string; s is the text String(value) gives
JUndefined == [t |-> "undefined", s |-> <<"u", "n", "d", "e", "f", "i", "n", "e", "d">>]
JNull == [t |-> "null", s |-> <<"n", "u", "l", "l">>]
JNumber(s) == [t |-> "number", s |-> s]
JString(s) == [t |-> "string", s |-> s]

\* String(value)
StringOf(v) == v.s

\* if (value)
JsTruthy(v) ==
    CASE v.t = "number" -> parseFloat(v.s).n # 0
      [] v.t = "string" -> v.s # <<>>
      [] OTHER -> FALSE

\* typeof v === 'number' || typeof v === 'string'
IsNumberOrString(v) == v.t \in {"number", "string"}

\* ------------------------------------------------------------------------
\* parseImdbHtml
\* ------------------------------------------------------------------------
\* A script[type="application/ld+json"] element: "empty" has no content,
\* "malformed" holds text JSON.parse rejects, "json" holds an object with
\* @type and, when agg is not None, an aggregateRating object.
JsonBlock(type, agg) == [kind |-> "json", type |-> type, agg |-> agg]
EmptyBlock == [kind |-> "empty", type |-> "", agg |-> None]
MalformedBlock == [kind |-> "malformed", type |-> "", agg |-> None]

T_87 == <<"8", ".", "7">>
T_75 == <<"7", ".", "5">>
T_0 == <<"0">>
T_534 == <<"5", "3", "4">>
T_NA == <<"N", "/", "A">>

SchemaTypes == {"Movie", "TVSeries", "Person"}

\* aggregateRating.ratingValue and aggregateRating.ratingCount of a block
ImdbRatingValues ==
    {JUndefined, JNumber(T_87), JNumber(T_0), JString(T_87), JString(T_NA), JString(<<>>)}
ImdbRatingCounts ==
    {JUndefined, JNumber(T_534), JNumber(T_0), JString(T_534), JString(T_NA)}

ImdbAggregates == {[ratingValue |-> v, ratingCount |-> c] :
                     v \in ImdbRatingValues, c \in ImdbRatingCounts}

\* blocks of the two types the parser reads, with every aggregateRating, and
\* one block of each type with a rating and a count
ImdbBlocks ==
    {EmptyBlock, MalformedBlock}
    \cup {JsonBlock("Movie", a) : a \in Opt(ImdbAggregates)}
    \cup {JsonBlock(t, Some([ratingValue |-> JNumber(T_75), ratingCount |-> JNumber(T_534)])) :
            t \in SchemaTypes}

\* text of the rating-score element and of the rating-count element; the
\* empty text stands for an element that is not there
ImdbRatingTexts == {<<>>, T_87, <<" ", "7", ".", "5", " ">>, T_NA}
ImdbCountTexts ==
    {<<>>, T_534, <<"2", ".", "1", "M">>, <<"8", "5", "0", "k">>, <<"(", "1", "K", ")">>,
     <<"K">>}

ImdbPage(blocks, ratingText, countText) ==
    [blocks |-> blocks, ratingText |-> ratingText, countText |-> countText]

\* lines 112-125: one script element, acc holds rating, ratingCount and
\* whether the loop was left
ImdbJsonStep(acc, b) ==
    IF b.kind # "json" THEN acc
    ELSE IF ~(b.type \in {"Movie", "TVSeries"} /\ IsSome(b.agg)) THEN acc
    ELSE LET aggRating == Val(b.agg)
             rating == IF JsTruthy(aggRating.ratingValue)
                       THEN Some(parseFloat(StringOf(aggRating.ratingValue)))
                       ELSE acc.rating
             ratingCount == IF JsTruthy(aggRating.ratingCount)
                            THEN Some(parseInt(StringOf(aggRating.ratingCount)))
                            ELSE acc.ratingCount
         IN [rating |-> rating, ratingCount |-> ratingCount,
             stop |-> IsSome(rating) /\ IsSome(ratingCount)]

\* lines 105-130: the .each loop over the script elements
RECURSIVE ImdbJsonFrom(_, _)
ImdbJsonFrom(acc, blocks) ==
    IF blocks = <<>> \/ acc.stop THEN acc
    ELSE ImdbJsonFrom(ImdbJsonStep(acc, Head(blocks)), Tail(blocks))

ImdbJson(doc) ==
    ImdbJsonFrom([rating |-> None, ratingCount |-> None, stop |-> FALSE], doc.blocks)

\* line 133: the selectors are read
ImdbReadsSelectors(doc) ==
    ~IsSome(ImdbJson(doc).rating) \/ ~IsSome(ImdbJson(doc).ratingCount)

\* count parsing that tests the K suffix before the M suffix and takes a
\* thousand for both
ImdbCountOfText_Thousands(ratingCountStr) ==
    LET numPart == parseFloat(KeepChars(ratingCountStr, DigitChars \cup {"."}))
    IN IF isNaN(numPart) THEN None
       ELSE IF Includes(ratingCountStr, <<"K">>) \/ Includes(ratingCountStr, <<"M">>)
            THEN Some(RoundTimesPow10(numPart, 3))
       ELSE Some(parseInt(KeepChars(ratingCountStr, DigitChars)))

\* lines 151-160: the rating count of the trimmed, upper-case count text
ImdbCountOfText(ratingCountStr) ==
    LET numPart == parseFloat(KeepChars(ratingCountStr, DigitChars \cup {"."}))
    IN IF isNaN(numPart) THEN None
       ELSE IF Includes(ratingCountStr, <<"M">>) THEN Some(RoundTimesPow10(numPart, 6))
       ELSE IF Includes(ratingCountStr, <<"K">>) THEN Some(RoundTimesPow10(numPart, 3))
       ELSE Some(parseInt(KeepChars(ratingCountStr, DigitChars)))

\* the validation that lets NaN through
Validated_KeepsNaN(x) == x

\* lines 165-166 and 360-365: x !== null && !isNaN(x) ? x : null
Validated(x) == IF IsSome(x) /\ ~isNaN(Val(x)) THEN x ELSE None

\* lines 141-161: rating and ratingCount after the selector fallback
ImdbSelectors(doc, json) ==
    LET ratingStr == Trim(doc.ratingText)
        ratingCountStr == ToUpperCase(Trim(doc.countText))
    IN [rating |-> IF ~IsSome(json.rating) /\ ratingStr # <<>>
                   THEN Some(parseFloat(ratingStr)) ELSE json.rating,
        ratingCount |-> IF ~IsSome(json.ratingCount) /\ ratingCountStr # <<>>
                        THEN ImdbCountOfText(ratingCountStr) ELSE json.ratingCount]

\* lines 97-180: the ImdbScrapeResult of a page cheerio loads
parseImdbHtml(doc) ==
    LET json == ImdbJson(doc)
        found == IF ImdbReadsSelectors(doc) THEN ImdbSelectors(doc, json)
                 ELSE [rating |-> json.rating, ratingCount |-> json.ratingCount]
    IN [rating |-> Validated(found.rating),
        ratingCount |-> Validated(found.ratingCount),
        error |-> None]

\* ------------------------------------------------------------------------
\* parseRottenTomatoesHtml
\* ------------------------------------------------------------------------
T_91 == <<"9", "1">>
T_80 == <<"8", "0">>
T_85 == <<"8", "5">>
T_250 == <<"2", "5", "0">>
T_88pct == <<"8", "8", "%">>
T_77pct == <<"7", "7", "%">>
T_120Reviews == <<"1", "2", "0", " ", "Reviews">>
T_Reviews == <<"Reviews">>
T_1000Ratings == <<"1", ",", "0", "0", "0", "+", " ", "Ratings">>
T_Consensus == <<"A", " ", "classic">>

\* A script[type="application/ld+json"] element of a Rotten Tomatoes page:
\* agg is aggregateRating, audience is audience.aggregateRating, reviewBody
\* is review.reviewBody
RtJsonBlock(type, agg, audience, reviewBody) ==
    [kind |-> "json", type |-> type, agg |-> agg, audience |-> audience,
     reviewBody |-> reviewBody]
RtEmptyBlock == [kind |-> "empty", type |-> "", agg |-> None, audience |-> None,
                 reviewBody |-> None]
RtMalformedBlock == [kind |-> "malformed", type |-> "", agg |-> None, audience |-> None,
                     reviewBody |-> None]

RtAggregates ==
    {[ratingValue |-> JNumber(T_91), reviewCount |-> JNumber(T_80)],
     [ratingValue |-> JString(T_NA), reviewCount |-> JNumber(T_80)],
     [ratingValue |-> JNumber(T_91), reviewCount |-> JUndefined]}

RtAudienceAggregates ==
    {[ratingValue |-> JNumber(T_85), ratingCount |-> JNumber(T_250)],
     [ratingValue |-> JNumber(T_85), ratingCount |-> JUndefined]}

\* Movie blocks with every content, and one block of another type with an
\* aggregateRating
RtBlocks ==
    {RtEmptyBlock, RtMalformedBlock}
    \cup {RtJsonBlock("Movie", a, u, r) : a \in Opt(RtAggregates),
                                         u \in Opt(RtAudienceAggregates),
                                         r \in Opt({T_Consensus})}
    \cup {RtJsonBlock("Person", Some([ratingValue |-> JNumber(T_91),
                                      reviewCount |-> JNumber(T_80)]), None, None)}

\* The media-scorecard element: the texts of its four slots and the
\* attributes of score-icon-critics and score-icon-audience (None: the
\* attribute, or the element, is not there)
RtCriticSlots ==
    {[criticsScore |-> <<>>, criticsReviews |-> <<>>],
     [criticsScore |-> T_88pct, criticsReviews |-> T_120Reviews],
     [criticsScore |-> T_NA, criticsReviews |-> T_Reviews],
     [criticsScore |-> T_88pct, criticsReviews |-> <<>>]}

RtAudienceSlots ==
    {[audienceScore |-> <<>>, audienceReviews |-> <<>>],
     [audienceScore |-> T_77pct, audienceReviews |-> T_1000Ratings],
     [audienceScore |-> T_77pct, audienceReviews |-> <<>>]}

RtCriticIcons ==
    {[certified |-> c, sentiment |-> s, score |-> i] :
        c \in Opt({"true"}), s \in Opt({"POSITIVE"}), i \in Opt({<<"9", "0">>})}

RtScoreCards ==
    {[critic |-> c, audience |-> a, criticIcon |-> i,
      audienceIcon |-> [certified |-> i.certified, sentiment |-> i.sentiment]] :
        c \in RtCriticSlots, a \in RtAudienceSlots, i \in RtCriticIcons}

\* text of the critics-consensus paragraph, empty when there is none
RtConsensusTexts == {<<>>, T_Consensus}

RtPage(blocks, scoreCard, consensus) ==
    [blocks |-> blocks, scoreCard |-> scoreCard, consensus |-> consensus,
     audienceConsensus |-> <<>>]

RtJsonStart ==
    [jsonCriticScore |-> None, jsonCriticReviewCount |-> None,
     jsonAudienceScore |-> None, jsonAudienceReviewCount |-> None,
     jsonConsensus |-> None, didFallbackParseCertifiedSentiment |-> FALSE,
     stop |-> FALSE]

\* lines 228-269: one script element
RtJsonStep(acc, b) ==
    IF b.kind # "json" THEN acc
    ELSE LET rated == b.type \in {"Movie", "TVSeries"} /\ IsSome(b.agg)
             criticScore ==
                 IF rated /\ IsNumberOrString(Val(b.agg).ratingValue)
                 THEN Some(parseInt(StringOf(Val(b.agg).ratingValue)))
                 ELSE acc.jsonCriticScore
             criticCount ==
                 IF rated /\ IsNumberOrString(Val(b.agg).reviewCount)
                 THEN Some(parseInt(StringOf(Val(b.agg).reviewCount)))
                 ELSE acc.jsonCriticReviewCount
             audienceScore ==
                 IF IsSome(b.audience)
                 THEN Some(parseInt(StringOf(Val(b.audience).ratingValue)))
                 ELSE acc.jsonAudienceScore
             audienceCount ==
                 IF IsSome(b.audience)
                 THEN Some(parseInt(StringOf(Val(b.audience).ratingCount)))
                 ELSE acc.jsonAudienceReviewCount
             consensus ==
                 IF IsSome(b.reviewBody) /\ Val(b.reviewBody) # <<>>
                 THEN Some(Trim(Val(b.reviewBody)))
                 ELSE acc.jsonConsensus
             all == /\ IsSome(criticScore) /\ IsSome(criticCount)
                    /\ IsSome(audienceScore) /\ IsSome(audienceCount)
                    /\ IsSome(consensus)
         IN [jsonCriticScore |-> criticScore, jsonCriticReviewCount |-> criticCount,
             jsonAudienceScore |-> audienceScore,
             jsonAudienceReviewCount |-> audienceCount,
             jsonConsensus |-> consensus,
             didFallbackParseCertifiedSentiment |->
                 acc.didFallbackParseCertifiedSentiment \/ all,
             stop |-> all]

\* lines 221-273: the .each loop over the script elements
RECURSIVE RtJsonFrom(_, _)
RtJsonFrom(acc, blocks) ==
    IF blocks = <<>> \/ acc.stop THEN acc
    ELSE RtJsonFrom(RtJsonStep(acc, Head(blocks)), Tail(blocks))

RtJson(doc) == RtJsonFrom(RtJsonStart, doc.blocks)

\* text.match(/^[0-9,]+/): the digits and commas the text begins with, None
\* when it begins with neither
RECURSIVE CountRun(_)
CountRun(t) ==
    IF t # <<>> /\ Head(t) \in DigitChars \cup {","} THEN 1 + CountRun(Tail(t)) ELSE 0

MatchCount(t) == IF CountRun(t) = 0 THEN None ELSE Some(SubSeq(t, 1, CountRun(t)))

RtNoCard ==
    [fallbackCriticScore |-> None, fallbackCriticReviewCount |-> None,
     fallbackAudienceScore |-> None, fallbackAudienceReviewCount |-> None,
     fallbackCriticCertified |-> None, fallbackCriticSentiment |-> None,
     fallbackAudienceCertified |-> None, fallbackAudienceSentiment |-> None,
     iconCriticScore |-> None, parsedCertifiedSentiment |-> FALSE]

\* lines 277-316: what the media-scorecard element gives
RtCard(doc) ==
    IF ~IsSome(doc.scoreCard) THEN RtNoCard
    ELSE LET card == Val(doc.scoreCard)
             scoreText == Trim(card.critic.criticsScore)
             score0 == IF scoreText # <<>>
                       THEN Some(parseInt(ReplaceFirst(scoreText, <<"%">>, <<>>)))
                       ELSE None
             criticCountText == Trim(card.critic.criticsReviews)
             audienceScoreText == Trim(card.audience.audienceScore)
             audienceMatch == MatchCount(Trim(card.audience.audienceReviews))
             certified == Some(card.criticIcon.certified = Some("true"))
             sentiment == card.criticIcon.sentiment
             icon0 == IF IsSome(card.criticIcon.score) /\ Val(card.criticIcon.score) # <<>>
                      THEN Some(parseInt(Val(card.criticIcon.score)))
                      ELSE None
         IN [fallbackCriticScore |->
                 IF scoreText # <<>> /\ isNaN(Val(score0)) THEN None ELSE score0,
             fallbackCriticReviewCount |->
                 IF criticCountText # <<>>
                 THEN Some(parseInt(KeepChars(criticCountText, DigitChars)))
                 ELSE None,
             fallbackAudienceScore |->
                 IF audienceScoreText # <<>>
                 THEN Some(parseInt(ReplaceFirst(audienceScoreText, <<"%">>, <<>>)))
                 ELSE None,
             fallbackAudienceReviewCount |->
                 IF IsSome(audienceMatch)
                 THEN Some(parseInt(DropChars(Val(audienceMatch), {","})))
                 ELSE None,
             fallbackCriticCertified |-> certified,
             fallbackCriticSentiment |-> sentiment,
             fallbackAudienceCertified |-> Some(card.audienceIcon.certified = Some("true")),
             fallbackAudienceSentiment |-> card.audienceIcon.sentiment,
             iconCriticScore |-> IF IsSome(icon0) /\ isNaN(Val(icon0)) THEN None ELSE icon0,
             parsedCertifiedSentiment |-> IsSome(certified) /\ IsSome(sentiment)]

\* a ?? b
Coalesce(a, b) == IF IsSome(a) THEN a ELSE b

\* lines 341-348: finalCriticScore
FinalCriticScore(json, card) ==
    IF IsSome(card.iconCriticScore) THEN card.iconCriticScore
    ELSE IF (json.didFallbackParseCertifiedSentiment \/ card.parsedCertifiedSentiment)
            /\ IsSome(card.fallbackCriticScore)
         THEN card.fallbackCriticScore
    ELSE Coalesce(json.jsonCriticScore, card.fallbackCriticScore)

\* the test that leaves an object with nothing but flags in the result
RtSide_FlagsCount(data) ==
    IF IsSome(data.score) \/ IsSome(data.ratingCount) \/ IsSome(data.consensus)
       \/ IsSome(data.sentiment)
    THEN Some(data) ELSE None

\* lines 384-390: critic and audience of the result
RtSide(data) ==
    IF IsSome(data.score) \/ IsSome(data.ratingCount) \/ IsSome(data.consensus)
    THEN Some(data) ELSE None

\* text || null
TextOrNull(t) == IF t = <<>> THEN None ELSE Some(t)

\* lines 194-393: the RtScrapeResult of a page cheerio loads
parseRottenTomatoesHtml(doc) ==
    LET json == RtJson(doc)
        card == RtCard(doc)
        fallbackConsensus == Trim(doc.consensus)
        fallbackAudienceConsensus == Trim(doc.audienceConsensus)
        finalConsensus == IF IsSome(json.jsonConsensus) THEN Val(json.jsonConsensus)
                          ELSE fallbackConsensus
        criticData ==
            [score |-> Validated(FinalCriticScore(json, card)),
             ratingCount |-> Validated(Coalesce(json.jsonCriticReviewCount,
                                                card.fallbackCriticReviewCount)),
             certified |-> card.fallbackCriticCertified,
             sentiment |-> card.fallbackCriticSentiment,
             consensus |-> TextOrNull(finalConsensus)]
        audienceData ==
            [score |-> Validated(Coalesce(json.jsonAudienceScore,
                                          card.fallbackAudienceScore)),
             ratingCount |-> Validated(Coalesce(json.jsonAudienceReviewCount,
                                                card.fallbackAudienceReviewCount)),
             certified |-> card.fallbackAudienceCertified,
             sentiment |-> card.fallbackAudienceSentiment,
             consensus |-> TextOrNull(fallbackAudienceConsensus)]
    IN [critic |-> RtSide(criticData), audience |-> RtSide(audienceData), error |-> None]

\* ------------------------------------------------------------------------
\* scrapeRatings and the handler of ratingsScraper.ts
\* ------------------------------------------------------------------------
IMDB_ID == "tt0111161"
RT_URL == "https://www.rottentomatoes.com/m/shawshank_redemption"

RBodies ==
    {[kind |-> "null", imdbId |-> None, rottenTomatoesUrl |-> None],
     [kind |-> "malformed", imdbId |-> None, rottenTomatoesUrl |-> None]}
    \cup {[kind |-> "json", imdbId |-> i, rottenTomatoesUrl |-> u] :
            i \in Opt({"", IMDB_ID}), u \in Opt({"", RT_URL})}

\* JavaScript truthiness of an optional string
TruthyStr(o) == IsSome(o) /\ Val(o) # ""

\* what the fetched page holds, as far as the result of its parser goes
ImdbPages == {"rated", "unrated", "unparsable"}
RtPages == {"scored", "critic only", "empty", "unparsable"}

\* the ImdbScrapeResult that parseImdbHtml returns for a page
ImdbResultOf(html, url) ==
    CASE html = "rated" ->
           [rating |-> Some(93), ratingCount |-> Some(2100000), sourceUrl |-> url,
            error |-> None]
      [] html = "unrated" ->
           [rating |-> None, ratingCount |-> None, sourceUrl |-> url, error |-> None]
      [] OTHER ->
           [rating |-> None, ratingCount |-> None, sourceUrl |-> url,
            error |-> Some(<<"IMDb parse failed", "load error">>)]

\* the RtScrapeResult that parseRottenTomatoesHtml returns for a page
RtResultOf(html, url) ==
    CASE html = "scored" ->
           [critic |-> Some("critic data"), audience |-> Some("audience data"),
            sourceUrl |-> url, error |-> None]
      [] html = "critic only" ->
           [critic |-> Some("critic data"), audience |-> None,
            sourceUrl |-> url, error |-> None]
      [] html = "empty" ->
           [critic |-> None, audience |-> None, sourceUrl |-> url, error |-> None]
      [] OTHER ->
           [critic |-> None, audience |-> None, sourceUrl |-> url,
            error |-> Some(<<"Rotten Tomatoes parse failed", "load error">>)]

\* fetchHtml: the page, or an error for a response that is not ok and for a
\* request that fails
FetchOutcomes == {"ok", "httpError", "networkError"}

FetchMessage(out) ==
    IF out = "httpError" THEN "Failed to fetch: 503 Service Unavailable"
    ELSE "request failed, reason: socket hang up"

\* lines 417-435: result.imdb after the IMDb block, for a fetch outcome and
\* the page fetched
ImdbBlock(out, imdbId, fetch, html) ==
    IF ~TruthyStr(imdbId) THEN out
    ELSE IF fetch = "ok"
    THEN [out EXCEPT !.imdb = Some(ImdbResultOf(html, "https://www.imdb.com/title/"))]
    ELSE [out EXCEPT !.imdb =
            Some([rating |-> None, ratingCount |-> None,
                  sourceUrl |-> "https://www.imdb.com/title/",
                  error |-> Some(<<"IMDb scrape failed", FetchMessage(fetch)>>)])]

\* the Rotten Tomatoes block with a catch that starts the result afresh
RtBlock_Clobbers(out, rottenTomatoesUrl, fetch, html) ==
    IF ~TruthyStr(rottenTomatoesUrl) THEN out
    ELSE IF fetch = "ok"
    THEN [out EXCEPT !.rottenTomatoes = Some(RtResultOf(html, Val(rottenTomatoesUrl)))]
    ELSE [imdb |-> None,
          rottenTomatoes |->
            Some([critic |-> None, audience |-> None,
                  sourceUrl |-> Val(rottenTomatoesUrl),
                  error |-> Some(<<"Rotten Tomatoes scrape failed", FetchMessage(fetch)>>)])]

\* lines 437-454: result.rottenTomatoes after the Rotten Tomatoes block
RtBlock(out, rottenTomatoesUrl, fetch, html) ==
    IF ~TruthyStr(rottenTomatoesUrl) THEN out
    ELSE IF fetch = "ok"
    THEN [out EXCEPT !.rottenTomatoes = Some(RtResultOf(html, Val(rottenTomatoesUrl)))]
    ELSE [out EXCEPT !.rottenTomatoes =
            Some([critic |-> None, audience |-> None,
                  sourceUrl |-> Val(rottenTomatoesUrl),
                  error |-> Some(<<"Rotten Tomatoes scrape failed", FetchMessage(fetch)>>)])]

\* lines 463-482: the body is parsed and validated
R_Start ==
    /\ pc = "idle"
    /\ calls < MaxInvocations
    /\ calls' = calls + 1
    /\ fetches' = 0
    /\ invLaunched' = {}
    /\ ratingsOut' = NoRatingsOut
    /\ lastOp' = NoOp
    /\ \E body \in RBodies :
         CASE body.kind = "malformed" ->
                /\ err' = "Unexpected token in JSON"
                /\ resp' = [Response(500, "Internal server error",
                                     "Unexpected token in JSON") EXCEPT !.returned = TRUE]
                /\ ratingsIn' = [NoRatingsIn EXCEPT !.body = "malformed"]
                /\ pc' = "idle"
           [] body.kind = "null" ->
                /\ err' = "Cannot read properties of null"
                /\ resp' = [Response(500, "Internal server error",
                                     "Cannot read properties of null") EXCEPT !.returned = TRUE]
                /\ ratingsIn' = [NoRatingsIn EXCEPT !.body = "null"]
                /\ pc' = "idle"
           [] body.kind = "json" /\ ~TruthyStr(body.imdbId)
                                 /\ ~TruthyStr(body.rottenTomatoesUrl) ->
                /\ err' = ""
                /\ resp' = [Response(400,
                              "At least one of imdbId or rottenTomatoesUrl is required",
                              "") EXCEPT !.returned = TRUE]
                /\ ratingsIn' = [NoRatingsIn EXCEPT !.body = "json", !.imdbId = body.imdbId,
                                    !.rottenTomatoesUrl = body.rottenTomatoesUrl]
                /\ pc' = "idle"
           [] OTHER ->
                /\ err' = ""
                /\ resp' = NoResp
                /\ ratingsIn' = [NoRatingsIn EXCEPT !.body = "json", !.imdbId = body.imdbId,
                                    !.rottenTomatoesUrl = body.rottenTomatoesUrl]
                /\ pc' = "r_imdb"
    /\ caller' = "ratings"
    /\ req' = NoReq
    /\ result' = None
    /\ dropped' = 0
    /\ detected' = {}
    /\ navCount' = 0
    /\ scroll' = NoScroll
    /\ startRetry' = 0
    /\ scrapeExit' = "none"
    /\ closeCalls' = 0
    /\ browser' = NewScraper(NewScraper(browser, "outer", 0), "inner", 0)
    /\ page' = NewScraper(NewScraper(page, "outer", 0), "inner", 0)
    /\ currentProxy' = NewScraper(NewScraper(currentProxy, "outer", None), "inner", None)
    /\ retryCount' = NewScraper(NewScraper(retryCount, "outer", 0), "inner", 0)
    /\ proxyList' = NewScraper(NewScraper(proxyList, "outer", <<>>), "inner", <<>>)
    /\ procs' = StillRunning(procs)
    /\ UNCHANGED <<auxVars, price, cur, locals, retryLog, enrichRet, sq, parse>>

\* lines 417-435 of scrapeRatings
R_Imdb ==
    /\ pc = "r_imdb"
    /\ IF TruthyStr(ratingsIn.imdbId)
       THEN \E fetch \in FetchOutcomes, html \in ImdbPages :
              /\ fetch # "ok" => html = "unparsable"
              /\ fetches' = fetches + 1
              /\ ratingsIn' = [ratingsIn EXCEPT !.imdbFetch = fetch,
                                  !.imdbHtml = IF fetch = "ok" THEN Some(html) ELSE None]
              /\ ratingsOut' = ImdbBlock(ratingsOut, ratingsIn.imdbId, fetch, html)
       ELSE /\ ratingsOut' = ImdbBlock(ratingsOut, ratingsIn.imdbId, "none", "unparsable")
            /\ UNCHANGED <<auxVars, price, fetches, ratingsIn>>
    /\ lastOp' = NoOp
    /\ pc' = "r_rt"
    /\ UNCHANGED <<auxVars, price, caller, cur, calls, session, retryCount, proxyList, req, locals,
                   result, dropped, err, resp, navCount, scroll, startRetry, detected, retryLog,
                   scrapeExit, closeCalls, enrichRet, sq, parse>>

\* lines 437-456 of scrapeRatings, then lines 484-498 of the handler: the
\* 200 response
R_Rt ==
    /\ pc = "r_rt"
    /\ IF TruthyStr(ratingsIn.rottenTomatoesUrl)
       THEN \E fetch \in FetchOutcomes, html \in RtPages :
              /\ fetch # "ok" => html = "unparsable"
              /\ fetches' = fetches + 1
              /\ ratingsIn' = [ratingsIn EXCEPT !.rtFetch = fetch,
                                  !.rtHtml = IF fetch = "ok" THEN Some(html) ELSE None]
              /\ ratingsOut' = RtBlock(ratingsOut, ratingsIn.rottenTomatoesUrl, fetch, html)
       ELSE /\ ratingsOut' = RtBlock(ratingsOut, ratingsIn.rottenTomatoesUrl,
                                     "none", "unparsable")
            /\ UNCHANGED <<auxVars, price, fetches, ratingsIn>>
    /\ resp' = [Response(200, "", "") EXCEPT !.returned = TRUE]
    /\ lastOp' = NoOp
    /\ pc' = "idle"
    /\ UNCHANGED <<auxVars, price, caller, cur, calls, session, retryCount, proxyList, req, locals,
                   result, dropped, err, navCount, scroll, startRetry, detected, retryLog,
                   scrapeExit, closeCalls, enrichRet, sq, parse>>

RatingsHandler == R_Start \/ R_Imdb \/ R_Rt

\* ------------------------------------------------------------------------
\* The two Lambda functions
\* ------------------------------------------------------------------------
Next == KpHandler \/ RatingsHandler \/ ScrapeStep

Spec == Init /\ [][Next]_vars

\* The two Lambda functions with a scheduler that lets a running call take
\* its next step, and a page.evaluate that is not left without an end: when
\* its function does not return, the protocol timeout ends it.
SpecLive == Init /\ [][Next]_vars /\ WF_vars(Next) /\ WF_vars(S_ScrollTimeout)

\* ------------------------------------------------------------------------
\* GoogleKnowledgePanelEnricher.enrichContent
\* ------------------------------------------------------------------------
ContentTypes == {"movie", "tv"}
CountryCodes == {"US"}

\* line 27: the search string made of the title and the content type
SearchStringOf(contentType) ==
    IF contentType = "movie" THEN "The Shawshank Redemption movie"
    ELSE "The Shawshank Redemption tv show"

\* lines 14-27: the content row is read
E_Start ==
    /\ pc = "idle"
    /\ calls < MaxCalls
    /\ calls' = calls + 1
    /\ invLaunched' = {}
    /\ detected' = {}
    /\ result' = None
    /\ dropped' = 0
    /\ resp' = NoResp
    /\ lastOp' = NoOp
    /\ caller' = "enrich"
    /\ cur' = "enricher"
    /\ navCount' = 0
    /\ scroll' = NoScroll
    /\ startRetry' = retryCount["enricher"]
    /\ scrapeExit' = "none"
    /\ closeCalls' = 0
    /\ \E contentType \in ContentTypes, countryCode \in CountryCodes,
          row \in {"found", "notFound", "dbError"} :
         CASE row = "found" ->
                /\ req' = [body |-> "none", searchString |-> Some(SearchStringOf(contentType)),
                           region |-> Some(countryCode)]
                /\ err' = ""
                /\ enrichRet' = "none"
                /\ pc' = "e_init"
           [] row = "notFound" ->
                /\ req' = NoReq
                /\ err' = ""
                /\ enrichRet' = "false"
                /\ pc' = "idle"
           [] OTHER ->
                /\ req' = NoReq
                /\ err' = "connection terminated"
                /\ enrichRet' = "none"
                /\ pc' = "e_catch"
    /\ UNCHANGED <<auxVars, price, browser, page, currentProxy, procs, retryCount, proxyList, locals,
                   retryLog, ratingsIn, ratingsOut, fetches, sq, parse>>

\* lines 30-31: await this.scraper.initialize(); this.scraper.scrape(...) is
\* called
E_Init ==
    /\ pc = "e_init"
    /\ \E out \in InitOutcomes, i \in ProxyDraws("enricher") :
         LET r == initialize("enricher", out, i)
         IN /\ currentProxy' = r.currentProxy
            /\ procs' = r.procs
            /\ browser' = r.browser
            /\ page' = r.page
            /\ invLaunched' = r.invLaunched
            /\ IF out = "ok"
               THEN /\ CallScrape("enricher", "enrich")
                    /\ UNCHANGED err
               ELSE /\ err' = r.err
                    /\ pc' = "e_catch"
                    /\ UNCHANGED <<auxVars, price, cur, caller, navCount, scroll, startRetry, scrapeExit, closeCalls>>
    /\ lastOp' = NoOp
    /\ UNCHANGED <<auxVars, price, calls, retryCount, proxyList, req, locals, result, dropped, resp, detected,
                   retryLog, callerVars>>

\* lines 33-83: the ratings and watch links are saved; finally
\* { await this.scraper.close() }
E_Save ==
    /\ pc = "e_save"
    /\ LET r == close("enricher")
       IN /\ procs' = r.procs
          /\ browser' = r.browser
          /\ page' = r.page
    /\ closeCalls' = CountClose("enricher")
    /\ result' = None
    /\ dropped' = 0
    /\ locals' = NoLocals
    /\ lastOp' = NoOp
    /\ \E saved \in {"ok", "dbError"} :
         IF saved = "ok"
         THEN /\ enrichRet' = "true"
              /\ pc' = "idle"
              /\ UNCHANGED err
         ELSE /\ err' = "connection terminated"
              /\ pc' = "e_catch"
              /\ UNCHANGED enrichRet
    /\ UNCHANGED <<auxVars, price, caller, cur, calls, currentProxy, invLaunched, retryCount, proxyList,
                   req, resp, navCount, scroll, startRetry, detected, retryLog,
                   scrapeExit, ratingsIn, ratingsOut, fetches, sq, parse>>

\* lines 84-87: the error is logged, false is returned
E_Catch ==
    /\ pc = "e_catch"
    /\ enrichRet' = "false"
    /\ lastOp' = NoOp
    /\ pc' = "idle"
    /\ UNCHANGED <<auxVars, price, caller, cur, calls, session, retryCount, proxyList, req, locals,
                   result, dropped, err, resp, navCount, scroll, startRetry, detected, retryLog,
                   scrapeExit, closeCalls, ratingsIn, ratingsOut, fetches, sq, parse>>

EnrichContent == E_Start \/ E_Init \/ E_Save \/ E_Catch

NextEnricher == EnrichContent \/ ScrapeStep

SpecEnricher == Init /\ [][NextEnricher]_vars

\* ------------------------------------------------------------------------
\* A scraper object used through its public methods, one call after another
\* ------------------------------------------------------------------------
\* initialize() is called on the scraper
D_Initialize ==
    /\ pc = "idle"
    /\ calls < MaxOps
    /\ calls' = calls + 1
    /\ caller' = "direct"
    /\ cur' = "direct"
    /\ \E out \in InitOutcomes, i \in ProxyDraws("direct") :
         LET r == initialize("direct", out, i)
         IN /\ currentProxy' = r.currentProxy
            /\ procs' = r.procs
            /\ browser' = r.browser
            /\ page' = r.page
            /\ invLaunched' = r.invLaunched
            /\ err' = r.err
    /\ lastOp' = NoOp
    /\ locals' = NoLocals
    /\ result' = None
    /\ dropped' = 0
    /\ UNCHANGED <<auxVars, price, pc, retryCount, proxyList, req, resp, navCount, scroll,
                   startRetry, detected, retryLog, scrapeExit, closeCalls, callerVars>>

\* scrape(searchString, region) is called on the scraper
D_Scrape ==
    /\ pc = "idle"
    /\ calls < MaxOps
    /\ calls' = calls + 1
    /\ CallScrape("direct", "direct")
    /\ req' = [body |-> "none", searchString |-> Some("The Shawshank Redemption"),
               region |-> None]
    /\ result' = None
    /\ dropped' = 0
    /\ locals' = NoLocals
    /\ err' = ""
    /\ detected' = {}
    /\ lastOp' = NoOp
    /\ UNCHANGED <<auxVars, price, session, retryCount, proxyList, resp, retryLog, callerVars>>

\* close() is called on the scraper
D_Close ==
    /\ pc = "idle"
    /\ calls < MaxOps
    /\ calls' = calls + 1
    /\ caller' = "direct"
    /\ cur' = "direct"
    /\ LET r == close("direct")
       IN /\ procs' = r.procs
          /\ browser' = r.browser
          /\ page' = r.page
    /\ closeCalls' = CountClose("direct")
    /\ lastOp' = [op |-> "close", b |-> browser["direct"]]
    /\ locals' = NoLocals
    /\ result' = None
    /\ dropped' = 0
    /\ UNCHANGED <<auxVars, price, pc, currentProxy, invLaunched, retryCount, proxyList, req,
                   err, resp, navCount, scroll, startRetry, detected, retryLog,
                   scrapeExit, callerVars>>

DirectUse == D_Initialize \/ D_Scrape \/ D_Close

NextSession == DirectUse \/ ScrapeStep

SpecSession == Init /\ [][NextSession]_vars

\* ------------------------------------------------------------------------
\* close() calls that overlap: a call gives up control at its await, and
\* another call on the same scraper may start before it resumes
\* ------------------------------------------------------------------------
MaxClosers == 2
Closers == 1..MaxClosers

\* close() is called by c and runs up to its await: the test of this.browser
\* and the call of this.browser.close()
Cl_Request(c) ==
    /\ pc = "idle"
    /\ \A w \in closing : w.id # c
    /\ IF browser["direct"] # 0
       THEN /\ procs' = [procs EXCEPT ![browser["direct"]].closes = @ + 1]
            /\ closing' = closing \cup {[id |-> c, b |-> browser["direct"]]}
       ELSE UNCHANGED <<procs, closing>>
    /\ UNCHANGED <<setup, price, watch_providers, runs, pc, caller, cur, calls, browser, page,
                   currentProxy, invLaunched, retryCount, proxyList, req, locals,
                   result, dropped, err, resp, navCount, scroll, startRetry, detected, retryLog,
                   lastOp, scrapeExit, closeCalls, callerVars>>

\* the browser.close() awaited by c settles and close() goes on: the process
\* has ended; a call on a browser that was closing already may be rejected,
\* which ends close() before the two assignments
Cl_Resume(c) ==
    /\ \E w \in closing :
         /\ w.id = c
         /\ closing' = closing \ {w}
         /\ procs' = [procs EXCEPT ![w.b].alive = FALSE]
         /\ \E out \in (IF procs[w.b].alive THEN {"ok"} ELSE {"ok", "rejected"}) :
              IF out = "ok"
              THEN /\ browser' = [browser EXCEPT !["direct"] = 0]
                   /\ page' = [page EXCEPT !["direct"] = 0]
              ELSE UNCHANGED <<browser, page>>
    /\ UNCHANGED <<setup, price, watch_providers, runs, pc, caller, cur, calls,
                   currentProxy, invLaunched, retryCount, proxyList, req, locals,
                   result, dropped, err, resp, navCount, scroll, startRetry, detected, retryLog,
                   lastOp, scrapeExit, closeCalls, callerVars>>

NextOverlap == D_Initialize \/ \E c \in Closers : Cl_Request(c) \/ Cl_Resume(c)

SpecOverlap == Init /\ [][NextOverlap]_vars

\* ------------------------------------------------------------------------
\* GoogleKnowledgePanelEnricher.processAcrossCountries: the enrichContent
\* runs of one batch, each at the watch options of its scraper result
\* ------------------------------------------------------------------------
MaxRuns == 2
MaxWatch == 1
ProviderNames == {"netflix.com", "hulu.com"}
BatchCountries == <<"US", "GB", "DE", "FR">>

\* the table before the batch: empty, or with one provider
ProviderTables == {<<>>} \cup {<<[id |-> 1, name |-> n]>> : n \in ProviderNames}

\* a run: the provider names of the watch options still to save, where it
\* is in the loop body, its nextId and provider, the watch links it has
\* written and the options its catch block gave up
NewRun(country, options) ==
    [country |-> country, options |-> options, at |-> "find", nextId |-> 0,
     provider |-> 0, links |-> {}, lost |-> 0]

MaxId(table) ==
    IF table = <<>> THEN 0
    ELSE CHOOSE m \in {table[i].id : i \in 1..Len(table)} :
           \A i \in 1..Len(table) : table[i].id <= m

\* .where('name', providerName).first(): the id of the row, 0 for none
FirstByName(table, n) ==
    LET hits == {i \in 1..Len(table) : table[i].name = n}
    IN IF hits = {} THEN 0 ELSE table[CHOOSE i \in hits : \A j \in hits : i <= j].id

\* the batch starts: countryBatch.map(countryCode => this.enrichContent(...))
PAC_Start ==
    /\ runs = <<>>
    /\ pc = "idle"
    /\ \E table \in ProviderTables : watch_providers' = table
    /\ \E n \in 1..MaxRuns :
         \E opts \in [1..n -> SeqsUpTo(ProviderNames, MaxWatch)] :
            runs' = [r \in 1..n |-> NewRun(BatchCountries[r], opts[r])]
    /\ UNCHANGED <<setup, price, closing, pc, caller, cur, calls, session, retryCount,
                   proxyList, req, locals, result, dropped, err, resp, navCount, scroll,
                   startRetry, detected, retryLog, lastOp, scrapeExit, closeCalls, callerVars>>

\* lines 196-199: the provider is looked up by its name
W_Find(r) ==
    /\ r \in DOMAIN runs
    /\ runs[r].options # <<>>
    /\ runs[r].at = "find"
    /\ LET id == FirstByName(watch_providers, Head(runs[r].options))
       IN runs' = [runs EXCEPT ![r].provider = id,
                               ![r].at = IF id = 0 THEN "max" ELSE "link"]
    /\ UNCHANGED <<setup, price, closing, watch_providers, pc, caller, cur, calls, session,
                   retryCount, proxyList, req, locals, result, dropped, err, resp, navCount,
                   scroll, startRetry, detected, retryLog, lastOp, scrapeExit, closeCalls,
                   callerVars>>

\* lines 205-210: max(id) is read and nextId computed
W_Max(r) ==
    /\ r \in DOMAIN runs
    /\ runs[r].at = "max"
    /\ runs' = [runs EXCEPT ![r].nextId = MaxId(watch_providers) + 1, ![r].at = "insert"]
    /\ UNCHANGED <<setup, price, closing, watch_providers, pc, caller, cur, calls, session,
                   retryCount, proxyList, req, locals, result, dropped, err, resp, navCount,
                   scroll, startRetry, detected, retryLog, lastOp, scrapeExit, closeCalls,
                   callerVars>>

\* lines 212-219: the row is inserted with id nextId; the primary key
\* rejects an id that is in the table, and the catch block of the option
\* (line 291) logs the error and goes on with the next option
W_Insert(r) ==
    /\ r \in DOMAIN runs
    /\ runs[r].at = "insert"
    /\ IF \E i \in 1..Len(watch_providers) : watch_providers[i].id = runs[r].nextId
       THEN /\ runs' = [runs EXCEPT ![r].lost = @ + 1, ![r].options = Tail(@),
                                    ![r].at = "find"]
            /\ UNCHANGED watch_providers
       ELSE /\ watch_providers' = Append(watch_providers,
                                         [id |-> runs[r].nextId,
                                          name |-> Head(runs[r].options)])
            /\ runs' = [runs EXCEPT ![r].at = "fetch"]
    /\ UNCHANGED <<setup, price, closing, pc, caller, cur, calls, session,
                   retryCount, proxyList, req, locals, result, dropped, err, resp, navCount,
                   scroll, startRetry, detected, retryLog, lastOp, scrapeExit, closeCalls,
                   callerVars>>

\* lines 221-224: the new row is read back by its id
W_Fetch(r) ==
    /\ r \in DOMAIN runs
    /\ runs[r].at = "fetch"
    /\ runs' = [runs EXCEPT ![r].provider = runs[r].nextId, ![r].at = "link"]
    /\ UNCHANGED <<setup, price, closing, watch_providers, pc, caller, cur, calls, session,
                   retryCount, proxyList, req, locals, result, dropped, err, resp, navCount,
                   scroll, startRetry, detected, retryLog, lastOp, scrapeExit, closeCalls,
                   callerVars>>

\* lines 243-289: the watch link of the run's country and the provider is
\* updated or inserted
W_Link(r) ==
    /\ r \in DOMAIN runs
    /\ runs[r].at = "link"
    /\ runs' = [runs EXCEPT ![r].links = @ \cup {runs[r].provider}, ![r].options = Tail(@),
                            ![r].at = "find"]
    /\ UNCHANGED <<setup, price, closing, watch_providers, pc, caller, cur, calls, session,
                   retryCount, proxyList, req, locals, result, dropped, err, resp, navCount,
                   scroll, startRetry, detected, retryLog, lastOp, scrapeExit, closeCalls,
                   callerVars>>

EnrichRun(r) == W_Find(r) \/ W_Max(r) \/ W_Insert(r) \/ W_Fetch(r) \/ W_Link(r)

NextProviders == PAC_Start \/ \E r \in 1..MaxRuns : EnrichRun(r)

SpecProviders == Init /\ [][NextProviders]_vars

\* ------------------------------------------------------------------------
\* squashWatchOptions on its own
\* ------------------------------------------------------------------------
\* the WatchOption values the three sources can produce: no price property,
\* an empty price (secondary source), a price text
OptionPrices == {[hasPrice |-> FALSE, price |-> EmptyText],
                 [hasPrice |-> TRUE, price |-> EmptyText],
                 [hasPrice |-> TRUE, price |-> T_399]}

OptionNames == {"Netflix", "a.example"}

Options == {WatchOption(l, n, p.hasPrice, p.price) :
              l \in Links, n \in OptionNames, p \in OptionPrices}

Perms(n) == {f \in [1..n -> 1..n] : \A i, j \in 1..n : f[i] = f[j] => i = j}

InitSquash ==
    /\ InitBut
    /\ price = NoPrice
    /\ \E L \in SeqsUpTo(Options, MaxLen) : sq = [NoSquash EXCEPT !.stage = "input", !.input = L]
    /\ parse = NoParse

\* squashWatchOptions(input)
Sq_Apply ==
    /\ sq.stage = "input"
    /\ sq' = [sq EXCEPT !.stage = "once", !.out = squashWatchOptions(sq.input)]
    /\ UNCHANGED <<auxVars, price, pc, caller, cur, calls, session, retryCount, proxyList, req, locals,
                   result, dropped, err, resp, navCount, scroll, startRetry, detected, retryLog, lastOp,
                   scrapeExit, closeCalls, ratingsIn, ratingsOut, fetches, enrichRet, parse>>

\* squashWatchOptions(squashWatchOptions(input))
Sq_Again ==
    /\ sq.stage = "once"
    /\ sq' = [sq EXCEPT !.stage = "twice", !.again = squashWatchOptions(sq.out)]
    /\ UNCHANGED <<auxVars, price, pc, caller, cur, calls, session, retryCount, proxyList, req, locals,
                   result, dropped, err, resp, navCount, scroll, startRetry, detected, retryLog, lastOp,
                   scrapeExit, closeCalls, ratingsIn, ratingsOut, fetches, enrichRet, parse>>

\* squashWatchOptions of a reordering of the input
Sq_Reorder ==
    /\ sq.stage = "once"
    /\ \E f \in Perms(Len(sq.input)) :
         LET r == [i \in 1..Len(sq.input) |-> sq.input[f[i]]]
         IN sq' = [sq EXCEPT !.stage = "reordered", !.reordered = r,
                             !.outReordered = squashWatchOptions(r)]
    /\ UNCHANGED <<auxVars, price, pc, caller, cur, calls, session, retryCount, proxyList, req, locals,
                   result, dropped, err, resp, navCount, scroll, startRetry, detected, retryLog, lastOp,
                   scrapeExit, closeCalls, ratingsIn, ratingsOut, fetches, enrichRet, parse>>

NextSquash == Sq_Apply \/ Sq_Again \/ Sq_Reorder

SpecSquash == InitSquash /\ [][NextSquash]_vars

\* ------------------------------------------------------------------------
\* The ratings parsers applied on their own
\* ------------------------------------------------------------------------
ImdbDocs ==
    {ImdbPage(b, r, c) : b \in SeqsUpTo(ImdbBlocks, MaxBlocks), r \in ImdbRatingTexts,
                         c \in ImdbCountTexts}

RtDocs ==
    {RtPage(b, s, c) : b \in SeqsUpTo(RtBlocks, MaxBlocks), s \in Opt(RtScoreCards),
                       c \in RtConsensusTexts}

InitParse ==
    /\ InitBut
    /\ price = NoPrice
    /\ sq = NoSquash
    /\ \/ \E doc \in ImdbDocs : parse = [fn |-> "imdb", page |-> Some(doc), out |-> None]
       \/ \E doc \in RtDocs : parse = [fn |-> "rt", page |-> Some(doc), out |-> None]

\* parseImdbHtml(html, url)
P_Imdb ==
    /\ parse.fn = "imdb"
    /\ parse.out = None
    /\ parse' = [parse EXCEPT !.out = Some(parseImdbHtml(Val(parse.page)))]
    /\ UNCHANGED <<auxVars, price, pc, caller, cur, calls, session, retryCount, proxyList, req, locals,
                   result, dropped, err, resp, navCount, scroll, startRetry, detected, retryLog,
                   lastOp, scrapeExit, closeCalls, ratingsIn, ratingsOut, fetches,
                   enrichRet, sq>>

\* parseRottenTomatoesHtml(html, url)
P_Rt ==
    /\ parse.fn = "rt"
    /\ parse.out = None
    /\ parse' = [parse EXCEPT !.out = Some(parseRottenTomatoesHtml(Val(parse.page)))]
    /\ UNCHANGED <<auxVars, price, pc, caller, cur, calls, session, retryCount, proxyList, req, locals,
                   result, dropped, err, resp, navCount, scroll, startRetry, detected, retryLog,
                   lastOp, scrapeExit, closeCalls, ratingsIn, ratingsOut, fetches,
                   enrichRet, sq>>

NextParse == P_Imdb \/ P_Rt

SpecParse == InitParse /\ [][NextParse]_vars

\* Rating-count texts: a number part of digits and points, then no suffix or
\* a K or M suffix in either case
CountChars == {"0", "1", "2", "3", "4", "5", "8", "."}
CountSuffixes == {<<>>, <<"K">>, <<"M">>, <<"k">>, <<"m">>}
CountTexts == {t \o s : t \in SeqsUpTo(CountChars, MaxDigits), s \in CountSuffixes}

InitCount ==
    /\ InitBut
    /\ price = NoPrice
    /\ sq = NoSquash
    /\ \E t \in CountTexts :
         parse = [fn |-> "imdb", page |-> Some(ImdbPage(<<>>, <<>>, t)), out |-> None]

SpecCount == InitCount /\ [][P_Imdb]_vars

\* IMDb pages with several structured-data blocks: blocks of the two types
\* the parser reads with a rating value, a rating count, both or neither, and
\* blocks it passes over
MaxScan == 2
ScanBlocks ==
    {MalformedBlock, JsonBlock("Movie", None),
     JsonBlock("Person", Some([ratingValue |-> JNumber(T_75), ratingCount |-> JNumber(T_534)]))}
    \cup {JsonBlock(t, Some([ratingValue |-> v, ratingCount |-> c])) :
            t \in {"Movie", "TVSeries"},
            v \in {JUndefined, JNumber(T_87), JNumber(T_75)},
            c \in {JUndefined, JNumber(T_534), JNumber(T_250)}}
ScanDocs ==
    {ImdbPage(b, r, c) : b \in SeqsUpTo(ScanBlocks, MaxScan),
                         r \in {<<>>, <<"9", ".", "1">>},
                         c \in {<<>>, <<"2", ".", "1", "M">>}}

InitScan ==
    /\ InitBut
    /\ price = NoPrice
    /\ sq = NoSquash
    /\ \E doc \in ScanDocs : parse = [fn |-> "imdb", page |-> Some(doc), out |-> None]

SpecScan == InitScan /\ [][P_Imdb]_vars

\* ------------------------------------------------------------------------
\* GoogleKnowledgePanelScraper.setupPage
\* ------------------------------------------------------------------------
COMMON_TIMEZONES == {"America/New_York", "America/Los_Angeles", "America/Chicago",
                     "Europe/London", "Europe/Paris"}
DeviceMemories == {2, 4, 8, 16}
HardwareConcurrencies == {2, 4, 6, 8}
Platforms == {"Win32", "MacIntel"}
Fingerprints == [deviceMemory : DeviceMemories, hardwareConcurrency : HardwareConcurrencies,
                 platform : Platforms]

\* the user agent, as its product tokens and comments in their order
userAgentOf(fp, chromeVersion) ==
    LET osVersion == IF fp.platform = "Win32" THEN "10.0" ELSE "10_15_7"
    IN IF fp.platform = "Win32"
       THEN <<"Mozilla/5.0", <<"Windows NT", osVersion, "Win64", "x64">>,
              "AppleWebKit/537.36", "(KHTML, like Gecko)", <<"Chrome", chromeVersion>>,
              "Safari/537.36">>
       ELSE <<"Mozilla/5.0", <<"Macintosh", "Intel Mac OS X", osVersion>>,
              "AppleWebKit/537.36", "(KHTML, like Gecko)", <<"Chrome", chromeVersion>>,
              "Safari/537.36">>

\* what a page carries after setupPage drew the time zone tz and the
\* fingerprint fp: the overrides of evaluateOnNewDocument, the user agent and
\* the extra headers
setupPage(fp, tz) ==
    LET chromeVersion == "120.0.0.0"
    IN [applied |-> TRUE,
        timeZone |-> tz,
        dateOffset |-> "GMT-0500",
        deviceMemory |-> fp.deviceMemory,
        hardwareConcurrency |-> fp.hardwareConcurrency,
        platform |-> fp.platform,
        userAgent |-> userAgentOf(fp, chromeVersion),
        secChUa |-> <<[brand |-> "Not_A Brand", v |-> "8"],
                      [brand |-> "Chromium", v |-> chromeVersion],
                      [brand |-> "Google Chrome", v |-> chromeVersion]>>,
        secChUaPlatform |-> IF fp.platform = "Win32" THEN "Windows" ELSE "macOS"]

\* setupPage(page) with the values its getRandomItem and Math.random draw
SetupPage ==
    /\ ~setup.applied
    /\ \E fp \in Fingerprints, tz \in COMMON_TIMEZONES : setup' = setupPage(fp, tz)
    /\ UNCHANGED <<pc, caller, cur, calls, session, retryCount, proxyList, req, locals,
                   result, dropped, err, resp, navCount, scroll, startRetry, detected, retryLog,
                   lastOp, scrapeExit, closeCalls, callerVars, price, closing,
                   watch_providers, runs>>

SpecSetup == Init /\ [][SetupPage]_vars

\* ------------------------------------------------------------------------
\* The price of one watch option element, read by each of the three sources
\* ------------------------------------------------------------------------
MaxPrice == 4
PriceChars == {"4", ".", "0", "F", "r", "e", "E"}
PriceInputs == SeqsUpTo(PriceChars, MaxPrice)
PriceSources == {"primary", "secondary", "fallback"}

InitPrice ==
    /\ InitBut
    /\ sq = NoSquash
    /\ parse = NoParse
    /\ \E src \in PriceSources, t \in PriceInputs :
         price = [source |-> src, text |-> t, out |-> None]

\* extractWatchOptionsFromPrimarySource on a container with one element
\* whose div.rsj3fb holds the text
Pr_Primary ==
    /\ price.source = "primary"
    /\ price.out = None
    /\ price' = [price EXCEPT !.out = Some(extractWatchOptionsFromPrimarySource(
                    [kind |-> "open",
                     anchors |-> <<[href |-> Some("https://a.example/w"),
                                    name |-> Some("Netflix"),
                                    price |-> Some(price.text)]>>]))]
    /\ UNCHANGED <<auxVars, pc, caller, cur, calls, session, retryCount, proxyList, req, locals,
                   result, dropped, err, resp, navCount, scroll, startRetry, detected, retryLog,
                   lastOp, scrapeExit, closeCalls, callerVars>>

\* extractWatchOptionsFromSecondarySource on div.nGOerd with one element
\* whose div.rsj3fb holds the text
Pr_Secondary ==
    /\ price.source = "secondary"
    /\ price.out = None
    /\ price' = [price EXCEPT !.out = Some(extractWatchOptionsFromSecondarySource(
                    [kind |-> "present",
                     anchors |-> <<[href |-> Some("https://a.example/w"),
                                    name |-> Some("Netflix"),
                                    price1 |-> Some(price.text), price2 |-> None]>>]))]
    /\ UNCHANGED <<auxVars, pc, caller, cur, calls, session, retryCount, proxyList, req, locals,
                   result, dropped, err, resp, navCount, scroll, startRetry, detected, retryLog,
                   lastOp, scrapeExit, closeCalls, callerVars>>

\* extractWatchOptionsFromFallbackSource on a div.fOYFme>a element whose
\* span holds the text
Pr_Fallback ==
    /\ price.source = "fallback"
    /\ price.out = None
    /\ price' = [price EXCEPT !.out = Some(extractWatchOptionsFromFallbackSource(
                    Some([href |-> Some("https://a.example/w"),
                          span |-> Some(price.text), uiBRm |-> None])))]
    /\ UNCHANGED <<auxVars, pc, caller, cur, calls, session, retryCount, proxyList, req, locals,
                   result, dropped, err, resp, navCount, scroll, startRetry, detected, retryLog,
                   lastOp, scrapeExit, closeCalls, callerVars>>

NextPrice == Pr_Primary \/ Pr_Secondary \/ Pr_Fallback

SpecPrice == InitPrice /\ [][NextPrice]_vars

\* ========================================================================
\* Properties
\* ========================================================================
Range(seq) == {seq[i] : i \in 1..Len(seq)}
IsPrefix(a, b) == Len(a) <= Len(b) /\ a = SubSeq(b, 1, Len(a))
PageOps == {"goto", "evaluate", "content", "extract"}
ProcIds == 1..Len(procs)

\* C1: when the knowledge-panel handler has returned its response (200, 400
\* or 500), every browser process launched during the invocation is closed.
C1_BrowsersClosedOnReturn ==
    (caller = "kp" /\ pc = "idle" /\ resp.returned)
        => \A b \in invLaunched : ~procs[b].alive

\* C2: a caller that initialized a session and ran scrape() on it has called
\* close() on that session once it is done, however the scrape ended
\* (result, error, bot-detection limit); stated for enrichContent.
C2_CloseOnEveryScrapeExit ==
    (caller = "enrich" /\ pc = "idle" /\ scrapeExit # "none") => closeCalls >= 1

\* C3: a top-level scrape() that begins with retryCount = 0 navigates at
\* most MAX_RETRIES times; when the navigation number MAX_RETRIES shows the
\* bot challenge too, the call fails with the terminal error and the failing
\* step closes, launches and navigates nothing.
C3_BoundedRetry ==
    /\ [](startRetry = 0 => navCount <= MAX_RETRIES)
    /\ []((scrapeExit = "botlimit" /\ startRetry = 0) => navCount = MAX_RETRIES)
    /\ [][(pc = "s_check" /\ startRetry = 0 /\ navCount = MAX_RETRIES
                /\ detected' # detected)
            => /\ err' = BOT_LIMIT
               /\ scrapeExit' = "botlimit"
               /\ pc' = CatchPc(caller)
               /\ UNCHANGED <<procs, browser, page, navCount>>]_vars

C3_Witness ==
    scrapeExit = "botlimit" /\ startRetry = 0 /\ navCount = MAX_RETRIES /\ err = BOT_LIMIT

\* C4: a bot-detection retry does, in this order and once each: close, the
\* cooldown, initialize (one proxy selection, one launch, one fingerprint
\* setup), the URL construction; the navigation that follows a detection is
\* preceded by exactly these; no page operation is made on a process whose
\* page showed the challenge.
RetryPlan == <<"detected", "close", "wait", "rotateProxy", "launch", "setupPage", "url">>

C4_RetryOrder ==
    /\ [](IsPrefix(retryLog, RetryPlan))
    /\ []((pc = "s_goto" /\ navCount > 0) => retryLog = RetryPlan)
    /\ [][lastOp'.op \in PageOps => lastOp'.b \notin detected]_vars

C4_Witness ==
    pc = "s_goto" /\ retryLog = RetryPlan /\ navCount = 2 /\ Len(procs) >= 3

\* C5: close() calls made one after another shut a browser process down at
\* most once: a close() on a session that holds a browser shuts it down and
\* drops it, a close() on a session that holds none (closed already, or
\* never initialized) changes nothing.
C5_CloseOnce ==
    /\ [](\A b \in ProcIds : procs[b].closes <= 1)
    /\ [][(lastOp'.op = "close" /\ calls' = calls + 1)
            => IF browser["direct"] = 0
               THEN UNCHANGED <<procs, browser, page>>
               ELSE /\ procs'[browser["direct"]].closes = 1
                    /\ ~procs'[browser["direct"]].alive
                    /\ browser'["direct"] = 0
                    /\ page'["direct"] = 0
                    /\ \A b \in ProcIds \ {browser["direct"]} : procs'[b] = procs[b]]_vars

\* the second close() after a scrape whose extraction threw
C5_Witness ==
    /\ lastOp = [op |-> "close", b |-> 0]
    /\ closeCalls = 2
    /\ scrapeExit = "error"
    /\ err = SELECTOR_TIMEOUT
    /\ \E b \in ProcIds : procs[b].closes = 1

\* C6: allWatchOptions of a result returned by scrape() holds at most one
\* entry per link.
C6_OneEntryPerLink ==
    IsSome(result) =>
        LET o == Val(result).allWatchOptions
        IN \A i, j \in 1..Len(o) : o[i].link = o[j].link => i = j

\* a result made of sources that showed one link twice
C6_Witness ==
    /\ IsSome(result)
    /\ dropped = 1
    /\ Len(Val(result).allWatchOptions) = 1

\* C7: squashWatchOptions(squashWatchOptions(L)) holds the same entries as
\* squashWatchOptions(L).
C7_SquashIdempotent ==
    sq.stage = "twice" => Range(sq.again) = Range(sq.out) /\ Len(sq.again) = Len(sq.out)

C7_Witness ==
    sq.stage = "twice" /\ Len(sq.out) = 2 /\ Len(sq.input) = 3 /\ sq.again = sq.out

\* C8: whatever the order of the input, when an entry of a link has a price
\* the entry returned for that link has a price.
PriceKept(input, output) ==
    \A l \in Links :
        (\E i \in 1..Len(input) : input[i].link = l
                                  /\ input[i].hasPrice /\ input[i].price # EmptyText)
        => /\ \E j \in 1..Len(output) : output[j].link = l
           /\ \A j \in 1..Len(output) :
                output[j].link = l => output[j].hasPrice /\ output[j].price # EmptyText

C8_PricePreferred ==
    /\ sq.stage \in {"once", "twice", "reordered"} => PriceKept(sq.input, sq.out)
    /\ sq.stage = "reordered" => /\ PriceKept(sq.reordered, sq.outReordered)
                                /\ PriceKept(sq.input, sq.outReordered)

\* the priced entry comes first in the input and last in the reordering
C8_Witness ==
    /\ sq.stage = "reordered"
    /\ Len(sq.input) = 2
    /\ sq.input[1].link = sq.input[2].link
    /\ sq.input[1].hasPrice /\ sq.input[1].price # EmptyText
    /\ ~sq.input[2].hasPrice
    /\ sq.reordered = <<sq.input[2], sq.input[1]>>
    /\ sq.outReordered = <<sq.input[1]>>

\* C9: a request without searchString gets 400 "Missing required field:
\* searchString" from the knowledge-panel handler and launches no browser; a
\* request without imdbId and rottenTomatoesUrl gets 400 "At least one of
\* imdbId or rottenTomatoesUrl is required" from the ratings handler and
\* starts no fetch.
KpInvalid ==
    /\ caller = "kp"
    /\ req.body \in {"null", "json"}
    /\ (req.searchString = None \/ req.searchString = Some(""))

RatingsInvalid ==
    /\ caller = "ratings"
    /\ ratingsIn.body = "json"
    /\ (ratingsIn.imdbId = None \/ ratingsIn.imdbId = Some(""))
    /\ (ratingsIn.rottenTomatoesUrl = None \/ ratingsIn.rottenTomatoesUrl = Some(""))

FetchFailed(f) == f \in {"httpError", "networkError"}
ImdbDone == caller = "ratings" /\ (pc = "r_rt" \/ (pc = "idle" /\ resp.status = 200))
RtDone == caller = "ratings" /\ pc = "idle" /\ resp.status = 200

C10_SourcesIndependent ==
    /\ [](ImdbDone =>
            /\ (ratingsOut.imdb = None) <=> (ratingsIn.imdbId \in {None, Some("")})
            /\ FetchFailed(ratingsIn.imdbFetch) =>
                 /\ IsSome(ratingsOut.imdb)
                 /\ Val(ratingsOut.imdb).rating = None
                 /\ Val(ratingsOut.imdb).ratingCount = None
                 /\ IsSome(Val(ratingsOut.imdb).error)
                 /\ Val(Val(ratingsOut.imdb).error)[1] = "IMDb scrape failed"
            /\ ratingsIn.imdbFetch = "ok" =>
                 ratingsOut.imdb = Some(ImdbResultOf(Val(ratingsIn.imdbHtml),
                                                     "https://www.imdb.com/title/")))
    /\ [](RtDone =>
            /\ (ratingsOut.rottenTomatoes = None)
                 <=> (ratingsIn.rottenTomatoesUrl \in {None, Some("")})
            /\ FetchFailed(ratingsIn.rtFetch) =>
                 /\ IsSome(ratingsOut.rottenTomatoes)
                 /\ Val(ratingsOut.rottenTomatoes).critic = None
                 /\ Val(ratingsOut.rottenTomatoes).audience = None
                 /\ IsSome(Val(ratingsOut.rottenTomatoes).error)
                 /\ Val(Val(ratingsOut.rottenTomatoes).error)[1]
                      = "Rotten Tomatoes scrape failed"
            /\ ratingsIn.rtFetch = "ok" =>
                 ratingsOut.rottenTomatoes
                   = Some(RtResultOf(Val(ratingsIn.rtHtml), Val(ratingsIn.rottenTomatoesUrl))))
    /\ [][pc = "r_rt" => ratingsOut'.imdb = ratingsOut.imdb]_vars
    /\ [][pc = "r_imdb" => ratingsOut'.rottenTomatoes = ratingsOut.rottenTomatoes]_vars

\* the IMDb fetch failed, the Rotten Tomatoes page was fetched and parsed
C10_Witness ==
    /\ RtDone
    /\ ratingsIn.imdbFetch = "networkError"
    /\ ratingsIn.rtFetch = "ok"
    /\ ratingsIn.rtHtml = Some("scored")
    /\ IsSome(ratingsOut.imdb) /\ IsSome(Val(ratingsOut.imdb).error)
    /\ IsSome(ratingsOut.rottenTomatoes)
    /\ Val(ratingsOut.rottenTomatoes).critic = Some("critic data")

\* ------------------------------------------------------------------------
\* Claims about the ratings parsers
\* ------------------------------------------------------------------------
ParsedImdb == parse.fn = "imdb" /\ IsSome(parse.out)
ParsedRt == parse.fn = "rt" /\ IsSome(parse.out)
Doc == Val(parse.page)
Out == Val(parse.out)

\* null or a number that is not NaN
NumberOrNull(x) == ~IsSome(x) \/ ~isNaN(Val(x))
\* a number that is not NaN
IsNumber(x) == IsSome(x) /\ ~isNaN(Val(x))

\* C11: every numeric field of a result of parseImdbHtml and of
\* parseRottenTomatoesHtml is null or a number, never NaN.
C11_NumbersOrNull ==
    /\ ParsedImdb => NumberOrNull(Out.rating) /\ NumberOrNull(Out.ratingCount)
    /\ ParsedRt =>
         \A side \in {Out.critic, Out.audience} :
            IsSome(side) => NumberOrNull(Val(side).score) /\ NumberOrNull(Val(side).ratingCount)

\* a rating value that does not parse gives a null rating, next to a count
\* that is a number
C11_Witness ==
    /\ ParsedImdb
    /\ ImdbJson(Doc).rating = Some(NaN)
    /\ Out.rating = None
    /\ IsNumber(Out.ratingCount)

\* a JSON number, or a JSON string that is a numeral
WellFormedNumber(v) ==
    /\ v.t \in {"number", "string"}
    /\ v.s # <<>>
    /\ \A i \in 1..Len(v.s) : v.s[i] \in DigitChars \cup {"."}
    /\ ~isNaN(parseFloat(v.s))

WellFormedRated(b) ==
    /\ b.kind = "json"
    /\ b.type \in {"Movie", "TVSeries"}
    /\ IsSome(b.agg)
    /\ WellFormedNumber(Val(b.agg).ratingValue)
    /\ WellFormedNumber(Val(b.agg).ratingCount)

\* C12: when a page has a Movie or TVSeries block whose aggregateRating has
\* a well-formed rating value and a well-formed rating count, parseImdbHtml
\* returns these two values and does not read the selectors.
C12_StructuredDataFirst ==
    (ParsedImdb /\ Len(Doc.blocks) = 1 /\ WellFormedRated(Doc.blocks[1])) =>
        LET aggRating == Val(Doc.blocks[1].agg)
        IN /\ Out.rating = Some(parseFloat(aggRating.ratingValue.s))
           /\ Out.ratingCount = Some(parseInt(aggRating.ratingCount.s))
           /\ ~ImdbReadsSelectors(Doc)

\* what the selectors alone give for rating and ratingCount
SelectorRating(doc) ==
    IF Trim(doc.ratingText) = <<>> THEN None
    ELSE Validated(Some(parseFloat(Trim(doc.ratingText))))

SelectorCount(doc) ==
    IF Trim(doc.countText) = <<>> THEN None
    ELSE Validated(ImdbCountOfText(ToUpperCase(Trim(doc.countText))))

\* C13: for rating and for ratingCount, when the structured data gave no
\* number for the field the result holds what the selector gives, so that
\* the field is null only when neither gave a number.
C13_SelectorFallback ==
    ParsedImdb =>
        /\ ~IsNumber(ImdbJson(Doc).rating) => Out.rating = SelectorRating(Doc)
        /\ ~IsNumber(ImdbJson(Doc).ratingCount) => Out.ratingCount = SelectorCount(Doc)

Abs(i) == IF i < 0 THEN -i ELSE i

\* x is the integer nearest to y * 10^e
NearestTimesPow10(x, y, e) ==
    /\ IsNumber(x)
    /\ Val(x).d <= 0
    /\ IF y.d <= e THEN Val(x) = Norm(y.n, y.d - e)
       ELSE 2 * Abs(Val(x).n * Pow10(-Val(x).d) * Pow10(y.d - e) - y.n) <= Pow10(y.d - e)

SideField(side, f) == IF IsSome(side) THEN Val(side)[f] ELSE None

\* the first candidate of a list that is not null, null when all are
RECURSIVE FirstNonNull(_)
FirstNonNull(candidates) ==
    IF candidates = <<>> THEN None
    ELSE IF IsSome(Head(candidates)) THEN Head(candidates)
    ELSE FirstNonNull(Tail(candidates))

\* the score card gave both a certified flag and a sentiment for the critics
WidgetGaveFlags(doc) ==
    /\ IsSome(RtCard(doc).fallbackCriticCertified)
    /\ IsSome(RtCard(doc).fallbackCriticSentiment)

\* C15: the critic score of a result of parseRottenTomatoesHtml is the first
\* candidate that is not null among: the score of the icon; the score of the
\* score card, in this rank only when the score card gave a certified flag
\* and a sentiment; the score of the structured data; the score of the score
\* card.
C15_CriticScorePrecedence ==
    ParsedRt =>
        LET json == RtJson(Doc)
            card == RtCard(Doc)
        IN SideField(Out.critic, "score") =
             Validated(FirstNonNull(<<card.iconCriticScore,
                                      IF WidgetGaveFlags(Doc) THEN card.fallbackCriticScore
                                      ELSE None,
                                      json.jsonCriticScore,
                                      card.fallbackCriticScore>>))

\* the structured-data value when it is a number, else the score-card value
JsonElseWidget(jsonValue, widgetValue) ==
    IF IsNumber(jsonValue) THEN jsonValue ELSE Validated(widgetValue)

\* C16: the critic count, the audience count and the audience score of a
\* result of parseRottenTomatoesHtml are the structured-data value when the
\* structured data has a number and else the value of the score card, so
\* that the field is null only when neither has a number.
C16_JsonElseWidget ==
    ParsedRt =>
        LET json == RtJson(Doc)
            card == RtCard(Doc)
        IN /\ SideField(Out.critic, "ratingCount") =
                JsonElseWidget(json.jsonCriticReviewCount, card.fallbackCriticReviewCount)
           /\ SideField(Out.audience, "ratingCount") =
                JsonElseWidget(json.jsonAudienceReviewCount, card.fallbackAudienceReviewCount)
           /\ SideField(Out.audience, "score") =
                JsonElseWidget(json.jsonAudienceScore, card.fallbackAudienceScore)

\* one of score, ratingCount and consensus of a side is not null
SideHasData(data) ==
    IsSome(data.score) \/ IsSome(data.ratingCount) \/ IsSome(data.consensus)

\* the page has something that gives the critics a score, a count or a
\* consensus
CriticDataOnPage(doc) ==
    \/ IsNumber(FinalCriticScore(RtJson(doc), RtCard(doc)))
    \/ IsNumber(Coalesce(RtJson(doc).jsonCriticReviewCount,
                         RtCard(doc).fallbackCriticReviewCount))
    \/ IsSome(RtJson(doc).jsonConsensus) /\ Val(RtJson(doc).jsonConsensus) # <<>>
    \/ ~IsSome(RtJson(doc).jsonConsensus) /\ Trim(doc.consensus) # <<>>

AudienceDataOnPage(doc) ==
    \/ IsNumber(Coalesce(RtJson(doc).jsonAudienceScore, RtCard(doc).fallbackAudienceScore))
    \/ IsNumber(Coalesce(RtJson(doc).jsonAudienceReviewCount,
                         RtCard(doc).fallbackAudienceReviewCount))
    \/ Trim(doc.audienceConsensus) # <<>>

\* C17: in a result of parseRottenTomatoesHtml, critic is an object exactly
\* when one of its score, ratingCount and consensus is not null, and so is
\* audience; an object whose score, ratingCount and consensus are all null
\* is never returned, whatever its certified flag and its sentiment.
C17_SideNullAsAWhole ==
    ParsedRt =>
        /\ \A side \in {Out.critic, Out.audience} : IsSome(side) => SideHasData(Val(side))
        /\ IsSome(Out.critic) <=> CriticDataOnPage(Doc)
        /\ IsSome(Out.audience) <=> AudienceDataOnPage(Doc)

\* the icons give a certified flag and a sentiment and nothing gives a
\* score, a count or a consensus: both sides are null
C17_Witness ==
    /\ ParsedRt
    /\ IsSome(RtCard(Doc).fallbackCriticCertified)
    /\ IsSome(RtCard(Doc).fallbackCriticSentiment)
    /\ IsSome(RtCard(Doc).fallbackAudienceSentiment)
    /\ Out.critic = None
    /\ Out.audience = None

\* ------------------------------------------------------------------------
\* Claims about the failures of scrape()
\* ------------------------------------------------------------------------
\* C18: each source of watch options is optional: an anchor element that is
\* absent, or a bounded wait for one of its elements that times out, makes
\* the source give no options and the scrape goes on to its result; no
\* scrape fails with the time-out of such a wait.
C18_SourceWaitIsOptional ==
    scrapeExit = "error" => err # SELECTOR_TIMEOUT

\* the statements of scrape() that navigate or extract
NavigateOrExtract ==
    {"s_goto", "s_scroll", "s_ratings", "s_director", "s_primary", "s_secondary",
     "s_fallback"}

\* C19: only a bot detection makes scrape() close the session, initialize it
\* again and navigate again: every navigation after the first of a call
\* follows a detection of that call, the close of a retry is only reached
\* from the bot check when it sees the challenge, and a navigation or an
\* extraction that fails ends the call in the same step, with no browser
\* closed or launched and no further navigation.
C19_OnlyBotDetectionRetries ==
    /\ [](navCount <= Cardinality(detected) + 1)
    /\ [][pc' = "s_close" => (pc = "s_check" /\ retryCount'[cur] = retryCount[cur] + 1)]_vars
    /\ [][(pc \in NavigateOrExtract /\ scrapeExit' = "error")
            => /\ pc' = CatchPc(caller)
               /\ UNCHANGED <<procs, browser, page, retryCount>>]_vars
    /\ [][scrapeExit = "error" => navCount' <= navCount]_vars

\* the navigation of a retry times out: the call fails after one detection
\* and two navigations
C19_Witness ==
    /\ scrapeExit = "error"
    /\ err = NAVIGATION_TIMEOUT
    /\ navCount = 2
    /\ Cardinality(detected) = 1

\* the handler of the knowledge panel has returned a response of status
\* 200, 400 or 500
KpReturned ==
    pc = "idle" /\ resp.returned /\ resp.status \in {200, 400, 500}

\* C20: every invocation of the knowledge-panel handler comes to return a
\* response of status 200, 400 or 500, and the synthetic scroll makes a
\* bounded number of steps on every page, also on a page whose scroll
\* position stops advancing: no more steps than there are units of scroll
\* position.
C20_HandlerReturnsScrollBounded ==
    /\ [](caller = "kp" => <>KpReturned)
    /\ [](scroll.steps <= MaxScroll)

\* C21: a failure of the synthetic scroll does not abort the scrape: no
\* scrape ends with an error whose last page operation is the page.evaluate
\* of the scroll.
C21_ScrollFailureTolerated ==
    ~(scrapeExit = "error" /\ lastOp.op = "evaluate")

\* C22: retryCount is 0 whenever a top-level scrape() begins, also on a
\* scraper whose earlier call ended with the bot-detection limit error.
C22_RetryCountStartsAtZero ==
    (pc = "s_enter" /\ navCount = 0) => retryCount[cur] = 0

\* C23: every initialize(), the first and the one of each retry, launches
\* the browser with a proxy it selects then: an element of the proxy list of
\* the scraper when the list is not empty, which is then the current proxy,
\* and no proxy when the list is empty.
C23_ProxyOfTheList ==
    [][Len(procs') = Len(procs) + 1
         => LET proxy == procs'[Len(procs')].proxy
            IN IF proxyList[cur'] = <<>> THEN proxy = None
               ELSE /\ IsSome(proxy)
                    /\ \E i \in 1..Len(proxyList[cur']) : proxyList[cur'][i] = Val(proxy)
                    /\ currentProxy'[cur'] = proxy]_vars

\* the browser of a retry is launched with a proxy of the list, as the
\* first one was
C23_Witness ==
    /\ navCount = 2
    /\ proxyList[cur] # <<>>
    /\ Cardinality(invLaunched) = 2
    /\ \A b \in invLaunched : IsSome(procs[b].proxy)

\* the operating system a user agent names, in the words of sec-ch-ua-platform
UaPlatform(ua) == IF ua[2][1] = "Windows NT" THEN "Windows"
                  ELSE IF ua[2][1] = "Macintosh" THEN "macOS" ELSE "other"
\* the operating system a navigator.platform value stands for
NavigatorPlatformOs(p) == IF p = "Win32" THEN "Windows"
                          ELSE IF p = "MacIntel" THEN "macOS" ELSE "other"
\* the offsets from GMT a time zone has over the year
OffsetsOf(tz) ==
    CASE tz = "America/New_York" -> {"GMT-0500", "GMT-0400"}
      [] tz = "America/Chicago" -> {"GMT-0600", "GMT-0500"}
      [] tz = "America/Los_Angeles" -> {"GMT-0800", "GMT-0700"}
      [] tz = "Europe/London" -> {"GMT+0000", "GMT+0100"}
      [] tz = "Europe/Paris" -> {"GMT+0100", "GMT+0200"}

\* C24: the signals setupPage applies agree: the user agent, navigator.platform
\* and sec-ch-ua-platform name one operating system, the Chrome version of the
\* user agent is the version of the Chrome brands of sec-ch-ua, and the offset
\* Date strings show is an offset of the time zone the page reports.
C24_FingerprintConsistent ==
    setup.applied =>
        /\ UaPlatform(setup.userAgent) = setup.secChUaPlatform
        /\ NavigatorPlatformOs(setup.platform) = setup.secChUaPlatform
        /\ \A i \in 2..3 : setup.secChUa[i].v = setup.userAgent[5][2]
        /\ setup.dateOffset \in OffsetsOf(setup.timeZone)

\* the one option read from the element
PricedOption == Val(price.out)[1]
EndsWith(t, pat) ==
    Len(t) >= Len(pat) /\ SubSeq(t, Len(t) - Len(pat) + 1, Len(t)) = pat
\* the price the three rules give: Free, else without a trailing .00, else as is
TrailingRule(t) ==
    IF Includes(ToLowerCase(t), <<"f", "r", "e", "e">>) THEN T_Free
    ELSE IF EndsWith(t, T_00) THEN SubSeq(t, 1, Len(t) - Len(T_00))
    ELSE t

\* C25: an option of the secondary or the fallback source carries 'Free' for
\* a price text that contains free in any letter case, else the text without
\* its trailing .00, else the text unchanged; an option of the primary source
\* carries the raw text.
C25_PriceMapper ==
    (IsSome(price.out) /\ Val(price.out) # <<>> /\ PricedOption.hasPrice) =>
        IF price.source = "primary" THEN PricedOption.price = price.text
        ELSE PricedOption.price = TrailingRule(price.text)

\* positions of the entries of link l in a list, and the least of a set of
\* positions
PositionsOf(list, l) == {i \in 1..Len(list) : list[i].link = l}
Least(S) == CHOOSE i \in S : \A j \in S : i <= j
\* the entry of link l that is to be returned: the first one, or the first
\* priced one after it when the first has no price and there is one
EntryToKeep(list, l) ==
    LET first == Least(PositionsOf(list, l))
        priced == {i \in PositionsOf(list, l) : i > first /\ Truthy(list[i])}
    IN IF ~Truthy(list[first]) /\ priced # {} THEN list[Least(priced)] ELSE list[first]

\* C26: squashWatchOptions returns one entry for each link of its input and
\* none else; the entry of a link is the first input entry of that link, or,
\* when that one has no price and a later one of the link has, the first
\* such later entry, with its own link, name and price.
C26_FirstOrFirstPriced ==
    sq.stage \in {"once", "twice", "reordered"} =>
        /\ \A l \in Links :
              PositionsOf(sq.input, l) # {} =>
                  /\ Cardinality(PositionsOf(sq.out, l)) = 1
                  /\ sq.out[Least(PositionsOf(sq.out, l))] = EntryToKeep(sq.input, l)
        /\ \A j \in 1..Len(sq.out) : PositionsOf(sq.input, sq.out[j].link) # {}

\* three entries of one link: the first without a price, then two priced
\* ones under another name; the second is returned
C26_Witness ==
    /\ sq.stage = "once"
    /\ Len(sq.input) = 3
    /\ \A i \in 1..3 : sq.input[i].link = sq.input[1].link
    /\ ~Truthy(sq.input[1]) /\ Truthy(sq.input[2]) /\ Truthy(sq.input[3])
    /\ sq.input[2].name # sq.input[1].name
    /\ sq.input[3].name # sq.input[2].name
    /\ sq.out = <<sq.input[2]>>

\* the block is one parseImdbHtml reads: a Movie or TVSeries with an
\* aggregateRating
CarriesRating(b) == b.kind = "json" /\ b.type \in {"Movie", "TVSeries"} /\ IsSome(b.agg)
\* positions of the blocks that give a rating value, and a rating count
GivesValue(blocks) ==
    {i \in 1..Len(blocks) : CarriesRating(blocks[i])
                             /\ JsTruthy(Val(blocks[i].agg).ratingValue)}
GivesCount(blocks) ==
    {i \in 1..Len(blocks) : CarriesRating(blocks[i])
                             /\ JsTruthy(Val(blocks[i].agg).ratingCount)}

\* C27: the rating value parseImdbHtml returns is the one of the first
\* structured-data block that gives one, and so is the rating count: no later
\* block and no selector replaces a value that a block has given.
C27_FirstBlockWins ==
    ParsedImdb =>
        /\ GivesValue(Doc.blocks) # {} =>
              Out.rating = Validated(Some(parseFloat(StringOf(
                  Val(Doc.blocks[Least(GivesValue(Doc.blocks))].agg).ratingValue))))
        /\ GivesCount(Doc.blocks) # {} =>
              Out.ratingCount = Validated(Some(parseInt(StringOf(
                  Val(Doc.blocks[Least(GivesCount(Doc.blocks))].agg).ratingCount))))

\* C28: between the calls made on a scraper, every browser process it has
\* launched and that is still alive is the one this.browser references.
C28_OneLiveBrowser ==
    pc = "idle" => \A b \in ProcIds : procs[b].alive => browser["direct"] = b

\* C29: the shutdown of a browser process is requested once, also when a
\* second close() starts while the first one waits for the shutdown.
C29_OverlapClosesOnce ==
    \A b \in ProcIds :
        (\E w \in closing : w.b = b) => procs[b].closes <= 1

\* rows of the table with the name n
RowsNamed(n) == {i \in 1..Len(watch_providers) : watch_providers[i].name = n}

\* C30: in a batch of concurrent enrichContent runs no provider name gets a
\* second row in watch_providers and no insert is refused for its id, so no
\* run gives up a watch option.
C30_OneRowPerProvider ==
    /\ \A n \in ProviderNames : Cardinality(RowsNamed(n)) <= 1
    /\ \A r \in DOMAIN runs : runs[r].lost = 0

====
